---- MODULE Spec2Model ----
(***************************************************************************)
(* Reservation lifecycle and seat inventory of the mashirotheater backend. *)
(* Every Lambda handler is an invocation that runs in one of the slots of  *)
(* Procs; each await on the store (DynamoDB) or on a collaborator (SES,    *)
(* S3) is one atomic step, so that concurrent invocations interleave       *)
(* between their reads and their writes exactly where the code suspends.   *)
(***************************************************************************)
EXTENDS Integers, Sequences, FiniteSets, TLC

\* ------------------------------------------------------------------ bounds
\* Number of reservation records that admissions may create.
MaxReservations == 2
\* Largest seat count an admission request asks for.
MaxSeats == 2
\* Number of instants of Instants the clock passes through after time 0.
MaxTick == 2
\* Largest totalSeats an admin update asks for (besides one above capacity).
MaxTotalSeats == 3
\* Invocations started in one behaviour of the concurrent specification.
MaxInvocations == 3
\* totalSeats of every schedule at the start.
InitTotalSeats == 2

\* ------------------------------------------------------- program constants
RESERVATION_EXPIRATION_HOURS == 1
THEATER_CAPACITY == 48
BATCH_SIZE == 25
MaxPerformanceReservations == 2
MinutesPerHour == 60

\* --------------------------------------------------------------- universes
Procs == {"i1", "i2"}
PerformanceIds == {"P1"}
UnknownPerformanceId == "PX"
ScheduleIds == {"S1", "S2", "S3"}
Emails == {"a@example.com", "b@example.com"}
Names == {"Taro"}
NotesInputs == {"memo"}
SECRET_KEY == "secret"
AdminUuid == "admin-uuid"
EntryUrl == "https://entry"
Tampered == <<"tampered">>
NoToken == <<>>
NoRes == 1 - 1
\* an optional field of a request body is <<>> when absent, <<v>> when given
Undefined == <<>>
Some(v) == <<v>>
\* the time of a date string that does not parse (NaN)
InvalidDate == 0 - 1
Unbounded == 0 - 1

VARIABLES
  now,           \* wall clock, in minutes (Date.now / new Date())
  tick,          \* index of now in the clock's instants
  performances,  \* Performances table: id -> item
  schedules,     \* Schedules table: id -> item
  reservations,  \* Reservations table: sequence of items, id = index
  attendees,     \* Attendees table: set of items
  mailbox,       \* e-mails SES delivered: the links requesters hold
  procs,         \* invocation slots: handler, position, locals
  response,      \* the response the last step returned, if it returned one
  everConfirmed, \* history: ids whose status has been written confirmed
  started        \* history: number of invocations started

vars == <<now, tick, performances, schedules, reservations, attendees,
          mailbox, procs, response, everConfirmed, started>>

\* ----------------------------------------------------------------- helpers
ResIds == 1..Len(reservations)

RECURSIVE SumSeats(_, _)
\* items.reduce((total, item) => total + item.reservedSeats, 0) over the ids S
SumSeats(S, res) ==
  IF S = {} THEN 0
  ELSE LET r == CHOOSE x \in S : TRUE
       IN res[r].reservedSeats + SumSeats(S \ {r}, res)

\* createHash("sha256").update(`${a}${b}...`).digest("hex"): an ideal hash,
\* injective on the sequence of its parts.
sha256(parts) == <<"sha256", parts>>

\* generateTemporaryUrl: token of the confirmation link
ConfirmToken(id, email) == sha256(<<id, email, SECRET_KEY>>)
\* sendConfirmationEmail (confirmReservation): token of the cancel link
CancelToken(id) == sha256(<<id, SECRET_KEY>>)

\* The clock's instants: 0, 59, 61, 120, 122, ... minutes.
InstantAt(k) == 61 * (k \div 2) + 59 * (k % 2)

Idle == [kind |-> "idle", pc |-> "idle", out |-> "none", rid |-> NoRes,
         token |-> NoToken, req |-> <<>>, snap |-> <<>>, total |-> 0,
         list |-> {}, raced |-> FALSE]
NoResponse == [kind |-> "none", pc |-> "none", rid |-> NoRes, out |-> "none",
               raced |-> FALSE, token |-> NoToken, failed |-> FALSE,
               req |-> <<>>]
\* the response of an invocation with locals loc, returned at loc.pc
Reply(loc, outcome) ==
  [kind |-> loc.kind, pc |-> loc.pc, rid |-> loc.rid, out |-> outcome,
   raced |-> loc.raced, token |-> loc.token, failed |-> FALSE,
   req |-> loc.req]

\* the invocation moves to its next await
Goto(p, to, loc) ==
  /\ procs' = [procs EXCEPT ![p] = [loc EXCEPT !.pc = to]]
  /\ response' = NoResponse
\* the handler returns: the slot is free again, the response goes out
ReturnFrom(p, loc, outcome) ==
  /\ procs' = [procs EXCEPT ![p] = Idle]
  /\ response' = Reply(loc, outcome)
Return(p, outcome) == ReturnFrom(p, procs[p], outcome)

\* a handler that returns before it suspends: the slot stays free
Answer(p, loc, outcome) ==
  /\ procs' = procs
  /\ response' = Reply(loc, outcome)

Free(p) == procs[p] = Idle
At(p, k, l) == procs[p].kind = k /\ procs[p].pc = l
\* an event arrives and the handler runs up to its first await
\* (U bounds the run: U.cap invocations at most, none when it is Unbounded)
Invoke(p, U) ==
  /\ Free(p)
  /\ IF U.cap = Unbounded
       THEN started' = started
       ELSE started < U.cap /\ started' = started + 1
Begun(p, k) == [Idle EXCEPT !.kind = k, !.pc = "arrival"]

Init ==
  /\ now = 0
  /\ tick = 0
  /\ performances = [p \in PerformanceIds |->
                       [id |-> p, reservationStartTime |-> 0,
                        maxReservations |-> 0, adminUuid |-> AdminUuid]]
  /\ schedules = [s \in ScheduleIds |->
                    [id |-> s, performanceId |-> "P1",
                     totalSeats |-> InitTotalSeats, entryUrl |-> EntryUrl]]
  /\ reservations = <<>>
  /\ attendees = {}
  /\ mailbox = {}
  /\ procs = [p \in Procs |-> Idle]
  /\ response = NoResponse
  /\ everConfirmed = {}
  /\ started = 0

\* time passes
Tick ==
  /\ tick < MaxTick
  /\ tick' = tick + 1
  /\ now' = InstantAt(tick + 1)
  /\ response' = NoResponse
  /\ UNCHANGED <<performances, schedules, reservations, attendees, mailbox,
                 procs, everConfirmed, started>>


\* --------------------------------------------------------------------------
\* createReservation (admission), src/src/createReservation.mjs 44-177
\* --------------------------------------------------------------------------
\* the request bodies sent by requesters with the given e-mail addresses
\* for the given schedules
AdmissionRequests(emails, scheduleIds) ==
  [performanceId : PerformanceIds \cup {UnknownPerformanceId},
   scheduleId : scheduleIds, name : Names, email : emails,
   reservedSeats : 0..MaxSeats, notes : NotesInputs]

\* variant: the admission-time queries count confirmed reservations only
AdmissionCounted_ConfirmedOnly == {"confirmed"}

\* statuses counted by the admission-time queries
AdmissionCounted == {"pending", "confirmed"}

\* a field the body does not carry (falsy in the handler's test)
Missing == ""

\* the body for req with one of its required string fields missing
MissingFieldRequests(req) ==
  {[req EXCEPT !.performanceId = Missing], [req EXCEPT !.scheduleId = Missing],
   [req EXCEPT !.name = Missing], [req EXCEPT !.email = Missing]}

\* the validation of the request body (lines 66-72)
InvalidRequest(req) ==
  \/ req.performanceId = Missing
  \/ req.scheduleId = Missing
  \/ req.name = Missing
  \/ req.email = Missing
  \/ req.reservedSeats <= 0

\* new Date() < reservationStartTime (lines 88-89)
NotYetOpen(performance, t) == t < performance.reservationStartTime

\* variant: the schedule query without its filter on the status
SameScheduleReservations_AnyStatus(performanceId, scheduleId, email) ==
  {r \in ResIds : /\ reservations[r].performanceId = performanceId
                  /\ reservations[r].scheduleId = scheduleId
                  /\ reservations[r].email = email}

\* the ids the GSI1 query of checkExistingReservation returns for a schedule
SameScheduleReservations(performanceId, scheduleId, email) ==
  {r \in ResIds : /\ reservations[r].performanceId = performanceId
                  /\ reservations[r].scheduleId = scheduleId
                  /\ reservations[r].email = email
                  /\ reservations[r].status \in AdmissionCounted}

\* variant: the performance query counts confirmed reservations only
SamePerformanceReservations_ConfirmedOnly(performanceId, email) ==
  {r \in ResIds : /\ reservations[r].performanceId = performanceId
                  /\ reservations[r].email = email
                  /\ reservations[r].status = "confirmed"}

\* the ids the GSI1 query of checkExistingReservation returns for a performance
SamePerformanceReservations(performanceId, email) ==
  {r \in ResIds : /\ reservations[r].performanceId = performanceId
                  /\ reservations[r].email = email
                  /\ reservations[r].status \in AdmissionCounted}

\* variant: the cap of the performance is looked at before the schedule
checkExistingReservation_CapFirst(performanceId, scheduleId, email) ==
  IF Cardinality(SamePerformanceReservations(performanceId, email))
       >= MaxPerformanceReservations
    THEN "MAX_PERFORMANCE_REACHED"
  ELSE IF Cardinality(SameScheduleReservations(performanceId, scheduleId, email)) > 0
    THEN "SAME_SCHEDULE"
  ELSE "allowed"

checkExistingReservation(performanceId, scheduleId, email) ==
  IF Cardinality(SameScheduleReservations(performanceId, scheduleId, email)) > 0
    THEN "SAME_SCHEDULE"
  ELSE IF Cardinality(SamePerformanceReservations(performanceId, email))
            >= MaxPerformanceReservations
    THEN "MAX_PERFORMANCE_REACHED"
  ELSE "allowed"

\* seats of a schedule held by reservations whose status is in statuses
ReservedSeats(performanceId, scheduleId, statuses) ==
  SumSeats({r \in ResIds : /\ reservations[r].performanceId = performanceId
                           /\ reservations[r].scheduleId = scheduleId
                           /\ reservations[r].status \in statuses},
           reservations)

\* getAvailableSeats of createReservation: totalSeats - (pending + confirmed)
getAvailableSeats(performanceId, scheduleId) ==
  schedules[scheduleId].totalSeats
    - ReservedSeats(performanceId, scheduleId, AdmissionCounted)

\* variant: the handler without its seat check
SeatsAlwaysEnough(availableSeats, reservedSeats) == FALSE

\* availableSeats < reservedSeats (line 121)
NotEnoughSeats(availableSeats, reservedSeats) == availableSeats < reservedSeats

\* the item createReservation puts (lines 136-148, 241-249)
NewReservation(req, t) ==
  [performanceId |-> req.performanceId, scheduleId |-> req.scheduleId,
   name |-> req.name, email |-> req.email,
   reservedSeats |-> req.reservedSeats, notes |-> req.notes,
   status |-> "pending", createdAt |-> t, updatedAt |-> t,
   reminderEmailSent |-> FALSE, surveyEmailSent |-> FALSE]

\* what the handler decides before its first query (lines 66-98)
AdmissionPrecheck(req, t) ==
  IF InvalidRequest(req) THEN "E002"
  ELSE IF req.performanceId \notin DOMAIN performances THEN "404"
  ELSE IF NotYetOpen(performances[req.performanceId], t) THEN "403"
  ELSE "proceed"

\* the request arrives: validation, getPerformance, the open-time check
AdmInvoke(p, U) ==
  \E req \in U.requests :
    /\ Invoke(p, U)
    /\ Len(reservations)
         + Cardinality({q \in Procs : procs[q].kind = "createReservation"
                                       /\ procs[q].rid = NoRes})
         < U.table
    /\ LET loc == [Begun(p, "createReservation") EXCEPT !.req = req]
           decision == AdmissionPrecheck(req, now)
       IN IF decision # "proceed"
            THEN Answer(p, loc, decision)
            ELSE Goto(p, "checkExistingReservation", loc)
    /\ UNCHANGED <<now, tick, performances, schedules, reservations,
                   attendees, mailbox, everConfirmed>>

\* the two queries of checkExistingReservation
AdmCheckExisting(p) ==
  /\ At(p, "createReservation", "checkExistingReservation")
  /\ LET req == procs[p].req
         check == checkExistingReservation(req.performanceId, req.scheduleId,
                                           req.email)
     IN IF check = "SAME_SCHEDULE" THEN Return(p, "E004")
        ELSE IF check = "MAX_PERFORMANCE_REACHED" THEN Return(p, "E005")
        ELSE Goto(p, "getAvailableSeats", procs[p])
  /\ UNCHANGED <<now, tick, performances, schedules, reservations, attendees,
                 mailbox, everConfirmed, started>>

\* variant: the item is put before the seats are checked
AdmGetAvailableSeats_PutFirst(p) ==
  /\ At(p, "createReservation", "getAvailableSeats")
  /\ reservations' = Append(reservations, NewReservation(procs[p].req, now))
  /\ LET req == procs[p].req IN
     IF NotEnoughSeats(getAvailableSeats(req.performanceId, req.scheduleId),
                       req.reservedSeats)
       THEN Return(p, "E001")
       ELSE Goto(p, "sendConfirmationEmail",
                 [procs[p] EXCEPT !.rid = Len(reservations) + 1])
  /\ UNCHANGED <<now, tick, performances, schedules, attendees, mailbox,
                 everConfirmed, started>>

\* getAvailableSeats and the seat check
AdmGetAvailableSeats(p) ==
  /\ At(p, "createReservation", "getAvailableSeats")
  /\ LET req == procs[p].req IN
     IF NotEnoughSeats(getAvailableSeats(req.performanceId, req.scheduleId),
                       req.reservedSeats)
       THEN Return(p, "E001")
       ELSE Goto(p, "createReservation", procs[p])
  /\ UNCHANGED <<now, tick, performances, schedules, reservations, attendees,
                 mailbox, everConfirmed, started>>

\* createReservation: the put of the pending item under a fresh id
AdmCreateReservation(p) ==
  /\ At(p, "createReservation", "createReservation")
  /\ reservations' = Append(reservations, NewReservation(procs[p].req, now))
  /\ Goto(p, "sendConfirmationEmail",
          [procs[p] EXCEPT !.rid = Len(reservations) + 1])
  /\ UNCHANGED <<now, tick, performances, schedules, attendees, mailbox,
                 everConfirmed, started>>

\* getPerformanceDetails and sendConfirmationEmail: the link is delivered
AdmSendConfirmationEmail(p) ==
  /\ At(p, "createReservation", "sendConfirmationEmail")
  /\ mailbox' = mailbox \cup
       {[kind |-> "confirm", id |-> procs[p].rid,
         token |-> ConfirmToken(procs[p].rid, procs[p].req.email)]}
  /\ Return(p, "200")
  /\ UNCHANGED <<now, tick, performances, schedules, reservations, attendees,
                 everConfirmed, started>>


\* --------------------------------------------------------------------------
\* confirmReservation, src/unnamed/part_004 41-277
\* --------------------------------------------------------------------------
\* the links a requester can present: those mailed for the id, or a forgery
PresentableTokens(id) == {m.token : m \in {x \in mailbox : x.id = id}} \cup {Tampered}

\* variant: the confirmation-time query counts no reservation
ConfirmCounted_None == {}

\* statuses counted by the confirmation-time query
ConfirmCounted == {"confirmed"}

\* variant: the handler compares no token
TokenNeverMismatches(id, token, reservation) == FALSE

\* token !== calculatedHash (lines 59-66)
ConfirmTokenMismatch(id, token, reservation) ==
  token # ConfirmToken(id, reservation.email)

\* variant: the handler without its check of a confirmed status
ConfirmPrecheck_NoConfirmedCheck(id, token) ==
  IF id \notin ResIds THEN "not-found"
  ELSE IF reservations[id].status = "expired" THEN "expired"
  ELSE IF ConfirmTokenMismatch(id, token, reservations[id]) THEN "invalid"
  ELSE "proceed"

\* what the handler decides from the item it read (lines 49-71)
ConfirmPrecheck(id, token) ==
  IF id \notin ResIds THEN "not-found"
  ELSE IF reservations[id].status = "expired" THEN "expired"
  ELSE IF ConfirmTokenMismatch(id, token, reservations[id]) THEN "invalid"
  ELSE IF reservations[id].status = "confirmed" THEN "already-confirmed"
  ELSE "proceed"

\* getAvailableSeats of confirmReservation: totalSeats as read - confirmed
confirm_getAvailableSeats(totalSeats, performanceId, scheduleId) ==
  totalSeats - ReservedSeats(performanceId, scheduleId, ConfirmCounted)

\* availableSeats < reservation.reservedSeats (line 117)
ConfirmNoSeats(availableSeats, reservedSeats) == availableSeats < reservedSeats

\* the unconditional update of confirmReservation (lines 122-137)
ConfirmUpdate(item, t) == [item EXCEPT !.status = "confirmed", !.updatedAt = t]

\* uuidv4(): an id no earlier builder got (p builds it for reservation r)
uuidv4(p, r) ==
  <<p, r, Cardinality({a \in attendees : a.reservationId = r})>>

\* variant: the existence query finds no item
hasAnyAttendees_Never(reservationId) == FALSE

\* hasAnyAttendees: the ReservationIdIndex query with Limit 1
hasAnyAttendees(reservationId) ==
  \E a \in attendees : a.reservationId = reservationId

\* a builder that copies the reservation's notes to every occupant
occupantNotes_Copied(i, notes) == notes

\* occupant name and notes of buildAttendeeRecords (lines 202-203)
occupantName(i, name) == IF i = 0 THEN <<name>> ELSE <<" ", name, " companion">>
occupantNotes(i, notes) == IF i = 0 THEN notes ELSE ""

\* buildAttendeeRecords: one item per seat; uuid is fresh per builder
buildAttendeeRecords(reservation, uuid) ==
  [i \in 1..reservation.reservedSeats |->
     [id |-> <<"ATT", uuid, i - 1>>,
      reservationId |-> reservation.id,
      performanceId |-> reservation.performanceId,
      scheduleId |-> reservation.scheduleId,
      name |-> occupantName(i - 1, reservation.name),
      checkedIn |-> FALSE,
      notes |-> occupantNotes(i - 1, reservation.notes)]]

\* the first BATCH_SIZE items of a list, and the rest
Slice(items) == SubSeq(items, 1, IF Len(items) < BATCH_SIZE THEN Len(items) ELSE BATCH_SIZE)
Rest(items) == SubSeq(items, (IF Len(items) < BATCH_SIZE THEN Len(items) ELSE BATCH_SIZE) + 1, Len(items))
Range(f) == {f[i] : i \in DOMAIN f}

\* the confirmation link is opened: the request names a reservation id
CfInvoke(p, U) ==
  \E id \in ResIds \cup {Len(reservations) + 1} :
    /\ Invoke(p, U)
    /\ Goto(p, "getReservation",
            [Begun(p, "confirmReservation") EXCEPT
               !.rid = id,
               !.raced = /\ id \in ResIds
                         /\ reservations[id].status = "pending"
                         /\ \E q \in Procs :
                              /\ procs[q].kind = "checkExpiredReservations"
                              /\ id \in procs[q].list])
    /\ UNCHANGED <<now, tick, performances, schedules, reservations,
                   attendees, mailbox, everConfirmed>>

\* getReservation and the checks made on the item read; the token is the
\* one the link carried
CfGetReservation(p) ==
  /\ At(p, "confirmReservation", "getReservation")
  /\ \E token \in PresentableTokens(procs[p].rid) :
       LET id == procs[p].rid
           decision == ConfirmPrecheck(id, token)
           loc == [procs[p] EXCEPT !.token = token]
       IN IF decision # "proceed" THEN ReturnFrom(p, loc, decision)
          ELSE Goto(p, "getSchedule",
                    [loc EXCEPT !.snap =
                       [id |-> id,
                        performanceId |-> reservations[id].performanceId,
                        scheduleId |-> reservations[id].scheduleId,
                        name |-> reservations[id].name,
                        email |-> reservations[id].email,
                        reservedSeats |-> reservations[id].reservedSeats,
                        notes |-> reservations[id].notes]])
  /\ UNCHANGED <<now, tick, performances, schedules, reservations, attendees,
                 mailbox, everConfirmed, started>>

\* getAvailableSeats, first read: the schedule's totalSeats
CfGetSchedule(p) ==
  /\ At(p, "confirmReservation", "getSchedule")
  /\ Goto(p, "queryReserved",
          [procs[p] EXCEPT !.total = schedules[procs[p].snap.scheduleId].totalSeats])
  /\ UNCHANGED <<now, tick, performances, schedules, reservations, attendees,
                 mailbox, everConfirmed, started>>

\* getAvailableSeats, second read: the confirmed seats; then the seat check
CfQueryReserved(p) ==
  /\ At(p, "confirmReservation", "queryReserved")
  /\ LET snap == procs[p].snap IN
     IF ConfirmNoSeats(confirm_getAvailableSeats(procs[p].total,
                          snap.performanceId, snap.scheduleId),
                       snap.reservedSeats)
       THEN Return(p, "no-seats")
       ELSE Goto(p, "transactWrite", procs[p])
  /\ UNCHANGED <<now, tick, performances, schedules, reservations, attendees,
                 mailbox, everConfirmed, started>>

\* the TransactWrite that sets the status to confirmed
CfTransactWrite(p) ==
  /\ At(p, "confirmReservation", "transactWrite")
  /\ LET id == procs[p].rid IN
       /\ reservations' = [reservations EXCEPT ![id] = ConfirmUpdate(@, now)]
       /\ everConfirmed' = everConfirmed \cup {id}
  /\ Goto(p, "hasAnyAttendees", procs[p])
  /\ UNCHANGED <<now, tick, performances, schedules, attendees, mailbox,
                 started>>

\* createAttendeesIfNotExists: the existence query and the build
CfHasAnyAttendees(p) ==
  /\ At(p, "confirmReservation", "hasAnyAttendees")
  /\ IF hasAnyAttendees(procs[p].rid)
       THEN Goto(p, "sendConfirmationEmail", procs[p])
       ELSE Goto(p, "putAttendeesBatch",
                 [procs[p] EXCEPT !.list = buildAttendeeRecords(procs[p].snap, uuidv4(p, procs[p].rid))])
  /\ UNCHANGED <<now, tick, performances, schedules, reservations, attendees,
                 mailbox, everConfirmed, started>>

\* putAttendeesBatch: one BatchWrite of at most BATCH_SIZE puts
CfPutAttendeesBatch(p) ==
  /\ At(p, "confirmReservation", "putAttendeesBatch")
  /\ attendees' = attendees \cup Range(Slice(procs[p].list))
  /\ IF Rest(procs[p].list) = <<>>
       THEN Goto(p, "sendConfirmationEmail", [procs[p] EXCEPT !.list = {}])
       ELSE Goto(p, "putAttendeesBatch", [procs[p] EXCEPT !.list = Rest(@)])
  /\ UNCHANGED <<now, tick, performances, schedules, reservations, mailbox,
                 everConfirmed, started>>

\* getPerformanceDetails and sendConfirmationEmail: the cancel link is mailed
CfSendConfirmationEmail(p) ==
  /\ At(p, "confirmReservation", "sendConfirmationEmail")
  /\ mailbox' = mailbox \cup
       {[kind |-> "cancel", id |-> procs[p].rid,
         token |-> CancelToken(procs[p].rid)]}
  /\ Return(p, "success")
  /\ UNCHANGED <<now, tick, performances, schedules, reservations, attendees,
                 everConfirmed, started>>


\* --------------------------------------------------------------------------
\* cancelReservation, src/src/createReservation.mjs 452-610
\* --------------------------------------------------------------------------
\* token !== calculatedHash (lines 478-485)
CancelTokenMismatch(id, token) == token # CancelToken(id)

\* variant: the handler without its check of a canceled status
CancelPrecheck_NoCanceledCheck(id, token) ==
  IF id \notin ResIds THEN "E002"
  ELSE IF CancelTokenMismatch(id, token) THEN "E002"
  ELSE "proceed"

\* what the handler decides from the item it read (lines 472-490)
CancelPrecheck(id, token) ==
  IF id \notin ResIds THEN "E002"
  ELSE IF CancelTokenMismatch(id, token) THEN "E002"
  ELSE IF reservations[id].status = "canceled" THEN "SUCCESS"
  ELSE "proceed"

\* variant: the status update also releases the seats of the item
updateReservationStatus_ReleaseSeats(item, status, t) ==
  [item EXCEPT !.status = status, !.updatedAt = t, !.reservedSeats = 0]

\* updateReservationStatus: the unconditional update
updateReservationStatus(item, status, t) ==
  [item EXCEPT !.status = status, !.updatedAt = t]

\* the cancel link is opened: getReservation and the checks on the item
CnInvoke(p, U) ==
  \E id \in ResIds \cup {Len(reservations) + 1} :
    \E token \in PresentableTokens(id) :
      /\ Invoke(p, U)
      /\ LET loc == [Begun(p, "cancelReservation") EXCEPT
                      !.rid = id, !.token = token]
             decision == CancelPrecheck(id, token)
         IN IF decision # "proceed"
              THEN Answer(p, loc, decision)
              ELSE Goto(p, "updateReservationStatus", loc)
      /\ UNCHANGED <<now, tick, performances, schedules, reservations,
                     attendees, mailbox, everConfirmed>>

\* updateReservationStatus(id, "canceled")
CnUpdateReservationStatus(p) ==
  /\ At(p, "cancelReservation", "updateReservationStatus")
  /\ reservations' = [reservations EXCEPT ![procs[p].rid] =
                        updateReservationStatus(@, "canceled", now)]
  /\ Goto(p, "queryAttendees", procs[p])
  /\ UNCHANGED <<now, tick, performances, schedules, attendees, mailbox,
                 everConfirmed, started>>

\* deleteAttendeesForReservation: the ReservationIdIndex query
CnQueryAttendees(p) ==
  /\ At(p, "cancelReservation", "queryAttendees")
  /\ LET items == {a \in attendees : a.reservationId = procs[p].rid} IN
       IF items = {} THEN Return(p, "SUCCESS")
       ELSE Goto(p, "batchDeleteAttendees", [procs[p] EXCEPT !.list = items])
  /\ UNCHANGED <<now, tick, performances, schedules, reservations, attendees,
                 mailbox, everConfirmed, started>>

\* batchDeleteAttendees: the deletes by key of the items the query returned
CnBatchDeleteAttendees(p) ==
  /\ At(p, "cancelReservation", "batchDeleteAttendees")
  /\ attendees' = {a \in attendees : a.id \notin {x.id : x \in procs[p].list}}
  /\ Return(p, "SUCCESS")
  /\ UNCHANGED <<now, tick, performances, schedules, reservations, mailbox,
                 everConfirmed, started>>

\* --------------------------------------------------------------------------
\* checkExpiredReservations (the reaper), src/unnamed/part_007 15-102
\* --------------------------------------------------------------------------
\* variant: the expiration window counted in minutes instead of hours
expirationTime_Minutes(t) == t - RESERVATION_EXPIRATION_HOURS

\* Date.now() - RESERVATION_EXPIRATION_HOURS * 60 * 60 * 1000, in minutes
expirationTime(t) == t - RESERVATION_EXPIRATION_HOURS * MinutesPerHour

\* the scan filter: #status = pending AND createdAt < expirationTime
IsExpiredCandidate(item, t) ==
  item.status = "pending" /\ item.createdAt < expirationTime(t)

\* A ScanCommand reads one page: at most 1 MB of the table, in the order of
\* the scan (here: of the ids), before the filter is applied.  It holds
\* ScanPageItems items; the tables that admissions fill hold fewer.
ScanPageItems == MaxReservations + 1
ScanPage == {r \in ResIds : r <= ScanPageItems}

\* getExpiredReservations: one ScanCommand, its Items taken as they come (no
\* ExclusiveStartKey, LastEvaluatedKey is not looked at)
getExpiredReservations(t) ==
  {r \in ScanPage : IsExpiredCandidate(reservations[r], t)}

\* variant: the update without its ConditionExpression
ExpireUnconditionally(item) == TRUE

\* ConditionExpression of updateReservationToExpired: #status = :pending
ExpireCondition(item) == item.status = "pending"

\* variant: the update applied whatever the stored status
ExpireWhateverStatus(item, t) ==
  [item EXCEPT !.status = "expired", !.updatedAt = t]

\* updateReservationToExpired: the conditional update, skipped when it fails
updateReservationToExpired(item, t) ==
  IF ExpireCondition(item)
    THEN [item EXCEPT !.status = "expired", !.updatedAt = t]
    ELSE item

\* the schedule fires: getExpiredReservations, the scan
RpInvoke(p, U) ==
  /\ Invoke(p, U)
  /\ LET loc == Begun(p, "checkExpiredReservations")
         expired == getExpiredReservations(now)
     IN IF expired = {} THEN Answer(p, loc, "200")
        ELSE Goto(p, "updateReservationToExpired", [loc EXCEPT !.list = expired])
  /\ UNCHANGED <<now, tick, performances, schedules, reservations, attendees,
                 mailbox, everConfirmed>>

\* one of the updates of Promise.all(expiredReservations.map(...))
RpUpdateReservationToExpired(p) ==
  /\ At(p, "checkExpiredReservations", "updateReservationToExpired")
  /\ \E r \in procs[p].list :
       /\ reservations' = [reservations EXCEPT ![r] =
                             updateReservationToExpired(@, now)]
       /\ IF procs[p].list = {r}
            THEN ReturnFrom(p, [procs[p] EXCEPT !.rid = r],
                            IF procs[p].out = "none" THEN "200" ELSE procs[p].out)
            ELSE Goto(p, "updateReservationToExpired",
                      [procs[p] EXCEPT !.list = @ \ {r}])
  /\ UNCHANGED <<now, tick, performances, schedules, attendees, mailbox,
                 everConfirmed, started>>

\* --------------------------------------------------------------------------
\* createAttendeesBatch, src/unnamed/part_007 119-257
\* --------------------------------------------------------------------------
\* variant: the scan without its filter on the status
getAllReservations == ResIds

\* the scan filter of getAllConfirmedReservations
getAllConfirmedReservations ==
  {r \in ResIds : reservations[r].status = "confirmed"}

\* occupant name of the batch job's buildAttendeeRecords (line 223)
batch_occupantName(i, name) == IF i = 0 THEN <<name>> ELSE <<name, " companion">>

batch_buildAttendeeRecords(reservation, uuid) ==
  [i \in 1..reservation.reservedSeats |->
     [id |-> <<"ATT", uuid, i - 1>>,
      reservationId |-> reservation.id,
      performanceId |-> reservation.performanceId,
      scheduleId |-> reservation.scheduleId,
      name |-> batch_occupantName(i - 1, reservation.name),
      checkedIn |-> FALSE,
      notes |-> occupantNotes(i - 1, reservation.notes)]]

\* the job is run: getAllConfirmedReservations, the scan; the items are
\* kept as read
BtInvoke(p, U) ==
  /\ Invoke(p, U)
  /\ LET loc == Begun(p, "createAttendeesBatch")
         confirmed == getAllConfirmedReservations
     IN IF confirmed = {} THEN Answer(p, loc, "200")
        ELSE Goto(p, "hasAnyAttendees", [loc EXCEPT !.list = confirmed])
  /\ UNCHANGED <<now, tick, performances, schedules, reservations, attendees,
                 mailbox, everConfirmed>>

\* the next reservation of the loop (scan order: ascending id)
BtCurrent(p) == CHOOSE r \in procs[p].list : \A x \in procs[p].list : r <= x

\* the loop's continue: on to the next reservation, or the response
BtNext(p, loc) ==
  IF loc.list = {BtCurrent(p)}
    THEN Return(p, "200")
    ELSE Goto(p, "hasAnyAttendees",
              [loc EXCEPT !.list = @ \ {BtCurrent(p)}, !.snap = <<>>])

\* hasAnyAttendees for the current reservation, and the build
BtHasAnyAttendees(p) ==
  /\ At(p, "createAttendeesBatch", "hasAnyAttendees")
  /\ LET r == BtCurrent(p) IN
       IF hasAnyAttendees(r)
         THEN BtNext(p, procs[p])
         ELSE Goto(p, "createAttendeesTransact",
                   [procs[p] EXCEPT !.snap =
                      batch_buildAttendeeRecords(
                        [id |-> r,
                         performanceId |-> reservations[r].performanceId,
                         scheduleId |-> reservations[r].scheduleId,
                         name |-> reservations[r].name,
                         reservedSeats |-> reservations[r].reservedSeats,
                         notes |-> reservations[r].notes], uuidv4(p, r))])
  /\ UNCHANGED <<now, tick, performances, schedules, reservations, attendees,
                 mailbox, everConfirmed, started>>

\* createAttendeesTransact: one TransactWrite of at most BATCH_SIZE puts
BtCreateAttendeesTransact(p) ==
  /\ At(p, "createAttendeesBatch", "createAttendeesTransact")
  /\ attendees' = attendees \cup Range(Slice(procs[p].snap))
  /\ IF Rest(procs[p].snap) = <<>>
       THEN BtNext(p, procs[p])
       ELSE Goto(p, "createAttendeesTransact", [procs[p] EXCEPT !.snap = Rest(@)])
  /\ UNCHANGED <<now, tick, performances, schedules, reservations, mailbox,
                 everConfirmed, started>>


\* --------------------------------------------------------------------------
\* sendReminderEmails, src/unnamed/part_002 36-237
\* --------------------------------------------------------------------------
\* the filter of getReservationsForSchedule: #status = confirmed
getReservationsForSchedule(performanceId, scheduleId) ==
  {r \in ResIds : /\ reservations[r].performanceId = performanceId
                  /\ reservations[r].scheduleId = scheduleId
                  /\ reservations[r].status = "confirmed"}

\* !reservation.reminderEmailSent && schedule.entryUrl (line 78)
NeedsReminder(reservation, schedule) ==
  ~reservation.reminderEmailSent /\ schedule.entryUrl # ""

\* the reminders delivered for reservation r
RemindersOf(r) == {m \in mailbox : m.kind = "reminder" /\ m.id = r}

\* the mail of sendReminderEmail: it carries the entryUrl the job read;
\* every SendEmailCommand is a delivery of its own (the n-th for r)
ReminderMail(r, schedule) ==
  [kind |-> "reminder", id |-> r,
   token |-> <<"entryUrl", schedule.entryUrl, Cardinality(RemindersOf(r)) + 1>>]

\* updateReservationReminderSent: SET reminderEmailSent = true
updateReservationReminderSent(item) == [item EXCEPT !.reminderEmailSent = TRUE]

\* the schedule the loop is at: the first left of those the queries returned
RmCurrent(p) == CHOOSE s \in procs[p].list : TRUE

\* the schedule fires.  Outside the sending hours the job answers at once;
\* otherwise getUpcomingSchedules reads the schedules of today and tomorrow
\* (U.upcoming), kept as read
RmInvoke(p, U) ==
  /\ Invoke(p, U)
  /\ \E isWithinSendingHours \in BOOLEAN :
       LET loc == Begun(p, "sendReminderEmails") IN
       IF ~isWithinSendingHours \/ U.upcoming = {}
         THEN Answer(p, loc, "200")
         ELSE Goto(p, "getPerformances",
                   [loc EXCEPT !.list = U.upcoming,
                               !.snap = [s \in U.upcoming |-> schedules[s]]])
  /\ UNCHANGED <<now, tick, performances, schedules, reservations, attendees,
                 mailbox, everConfirmed>>

\* getPerformances and getEmailTemplate: two reads the tables do not see
RmGetPerformances(p) ==
  /\ At(p, "sendReminderEmails", "getPerformances")
  /\ Goto(p, "getReservationsForSchedule", procs[p])
  /\ UNCHANGED <<now, tick, performances, schedules, reservations, attendees,
                 mailbox, everConfirmed, started>>

\* the loop goes on to the next schedule, or the job answers
RmNext(p, loc) ==
  IF loc.list = {RmCurrent(p)}
    THEN ReturnFrom(p, [loc EXCEPT !.req = <<>>], "200")
    ELSE Goto(p, "getReservationsForSchedule",
              [loc EXCEPT !.list = @ \ {RmCurrent(p)}, !.req = <<>>])

\* the reminders of the current schedule are all settled
RmSettled(loc) == loc.req.todo = {} /\ loc.req.sent = {}

\* a reminder was settled: more of them, or the next schedule
RmContinue(p, loc) ==
  IF RmSettled(loc) THEN RmNext(p, loc) ELSE Goto(p, "sendReminders", loc)

\* getReservationsForSchedule for the current schedule; the reservations to
\* remind are chosen from the items as read
RmGetReservationsForSchedule(p) ==
  /\ At(p, "sendReminderEmails", "getReservationsForSchedule")
  /\ LET schedule == procs[p].snap[RmCurrent(p)]
         todo == {r \in getReservationsForSchedule(schedule.performanceId,
                                                    schedule.id) :
                    NeedsReminder(reservations[r], schedule)}
     IN RmContinue(p, [procs[p] EXCEPT !.req = [todo |-> todo, sent |-> {}]])
  /\ UNCHANGED <<now, tick, performances, schedules, reservations, attendees,
                 mailbox, everConfirmed, started>>

\* sendReminderEmail for one of the reservations
RmSendReminderEmail(p) ==
  /\ At(p, "sendReminderEmails", "sendReminders")
  /\ \E r \in procs[p].req.todo :
       /\ mailbox' = mailbox \cup {ReminderMail(r, procs[p].snap[RmCurrent(p)])}
       /\ Goto(p, "sendReminders",
               [procs[p] EXCEPT !.req.todo = @ \ {r},
                                !.req.sent = @ \cup {r}])
  /\ UNCHANGED <<now, tick, performances, schedules, reservations, attendees,
                 everConfirmed, started>>

\* updateReservationReminderSent for a reservation whose mail went out
RmUpdateReservationReminderSent(p) ==
  /\ At(p, "sendReminderEmails", "sendReminders")
  /\ \E r \in procs[p].req.sent :
       /\ reservations' = [reservations EXCEPT ![r] =
                             updateReservationReminderSent(@)]
       /\ RmContinue(p, [procs[p] EXCEPT !.req.sent = @ \ {r}])
  /\ UNCHANGED <<now, tick, performances, schedules, attendees, mailbox,
                 everConfirmed, started>>

\* --------------------------------------------------------------------------
\* sendSurveyEmails, src/unnamed/part_002 308-527
\* (the performances of the model all carry a surveyFormUrl)
\* --------------------------------------------------------------------------
\* the surveys delivered for reservation r
SurveysOf(r) == {m \in mailbox : m.kind = "survey" /\ m.id = r}

\* isRepresentativeCheckedIn: the answers the attendee query allows, the
\* main attendee being the first item found under the reservation's name
isRepresentativeCheckedIn(r) ==
  LET main == {a \in attendees : /\ a.reservationId = r
                                  /\ a.name = occupantName(0, reservations[r].name)}
  IN IF main = {} THEN {FALSE} ELSE {a.checkedIn = TRUE : a \in main}

\* updateReservationSurveySent: SET surveyEmailSent = true
updateReservationSurveySent(item) == [item EXCEPT !.surveyEmailSent = TRUE]

\* the schedule fires.  Outside the sending hours the job answers at once;
\* otherwise getPastSchedules reads the schedules of yesterday (U.past)
SvInvoke(p, U) ==
  /\ Invoke(p, U)
  /\ \E isWithinSendingHours \in BOOLEAN :
       LET loc == Begun(p, "sendSurveyEmails") IN
       IF ~isWithinSendingHours \/ U.past = {}
         THEN Answer(p, loc, "200")
         ELSE Goto(p, "getPerformances",
                   [loc EXCEPT !.list = U.past,
                               !.snap = [s \in U.past |-> schedules[s]]])
  /\ UNCHANGED <<now, tick, performances, schedules, reservations, attendees,
                 mailbox, everConfirmed>>

\* getPerformances and getEmailTemplate
SvGetPerformances(p) ==
  /\ At(p, "sendSurveyEmails", "getPerformances")
  /\ Goto(p, "getConfirmedReservationsForSchedule", procs[p])
  /\ UNCHANGED <<now, tick, performances, schedules, reservations, attendees,
                 mailbox, everConfirmed, started>>

\* a survey was settled: more of them, the next schedule, or the answer
SvContinue(p, loc) ==
  IF loc.req.todo \cup loc.req.checked \cup loc.req.sent # {}
    THEN Goto(p, "sendSurveys", loc)
  ELSE IF loc.list = {RmCurrent(p)}
    THEN ReturnFrom(p, [loc EXCEPT !.req = <<>>], "200")
  ELSE Goto(p, "getConfirmedReservationsForSchedule",
            [loc EXCEPT !.list = @ \ {RmCurrent(p)}, !.req = <<>>])

\* getConfirmedReservationsForSchedule for the current schedule; the
\* reservations to survey are those read without surveyEmailSent
SvGetConfirmedReservationsForSchedule(p) ==
  /\ At(p, "sendSurveyEmails", "getConfirmedReservationsForSchedule")
  /\ LET schedule == procs[p].snap[RmCurrent(p)]
         todo == {r \in getReservationsForSchedule(schedule.performanceId,
                                                    schedule.id) :
                    ~reservations[r].surveyEmailSent}
     IN SvContinue(p, [procs[p] EXCEPT
                         !.req = [todo |-> todo, checked |-> {}, sent |-> {}]])
  /\ UNCHANGED <<now, tick, performances, schedules, reservations, attendees,
                 mailbox, everConfirmed, started>>

\* isRepresentativeCheckedIn for one of the reservations: it is surveyed
\* only if its main attendee is checked in
SvIsRepresentativeCheckedIn(p) ==
  /\ At(p, "sendSurveyEmails", "sendSurveys")
  /\ \E r \in procs[p].req.todo : \E checkedIn \in isRepresentativeCheckedIn(r) :
       SvContinue(p, [procs[p] EXCEPT
                        !.req.todo = @ \ {r},
                        !.req.checked = IF checkedIn THEN @ \cup {r} ELSE @])
  /\ UNCHANGED <<now, tick, performances, schedules, reservations, attendees,
                 mailbox, everConfirmed, started>>

\* sendSurveyEmail for a reservation whose representative is checked in
SvSendSurveyEmail(p) ==
  /\ At(p, "sendSurveyEmails", "sendSurveys")
  /\ \E r \in procs[p].req.checked :
       /\ mailbox' = mailbox \cup
            {[kind |-> "survey", id |-> r,
              token |-> <<"surveyFormUrl", Cardinality(SurveysOf(r)) + 1>>]}
       /\ Goto(p, "sendSurveys",
               [procs[p] EXCEPT !.req.checked = @ \ {r},
                                !.req.sent = @ \cup {r}])
  /\ UNCHANGED <<now, tick, performances, schedules, reservations, attendees,
                 everConfirmed, started>>

\* updateReservationSurveySent for a reservation whose mail went out
SvUpdateReservationSurveySent(p) ==
  /\ At(p, "sendSurveyEmails", "sendSurveys")
  /\ \E r \in procs[p].req.sent :
       /\ reservations' = [reservations EXCEPT ![r] =
                             updateReservationSurveySent(@)]
       /\ SvContinue(p, [procs[p] EXCEPT !.req.sent = @ \ {r}])
  /\ UNCHANGED <<now, tick, performances, schedules, attendees, mailbox,
                 everConfirmed, started>>

\* --------------------------------------------------------------------------
\* updateCheckinAdmin, src/src/admin/updateCheckinAdmin.mjs 35-167
\* --------------------------------------------------------------------------
\* an attendee id no item has (no builder made it)
UnknownAttendeeId == <<"ATT", <<"nobody", NoRes, 0>>, 0>>

\* SET checkedIn = :val on the item of key attendeeId; an UpdateCommand
\* creates the item, of that key and attribute only, when there is none
updateAttendeeCheckin(attendeeId, checkedIn) ==
  IF \E a \in attendees : a.id = attendeeId
    THEN {IF a.id = attendeeId THEN [a EXCEPT !.checkedIn = checkedIn] ELSE a :
            a \in attendees}
    ELSE attendees \cup
           {[id |-> attendeeId, reservationId |-> NoRes,
             performanceId |-> Missing, scheduleId |-> Missing,
             name |-> Missing, checkedIn |-> checkedIn, notes |-> Missing]}

\* the request arrives: getAttendee
CkInvoke(p, U) ==
  \E attendeeId \in {a.id : a \in attendees} \cup {UnknownAttendeeId} :
    \E checkedIn \in BOOLEAN : \E uuid \in U.checkinUuids :
      /\ Invoke(p, U)
      /\ LET loc == [Begun(p, "updateCheckinAdmin") EXCEPT
                       !.req = [attendeeId |-> attendeeId,
                                checkedIn |-> checkedIn, uuid |-> uuid]]
         IN IF \A a \in attendees : a.id # attendeeId
              THEN Answer(p, loc, "404")
              ELSE Goto(p, "getPerformance",
                        [loc EXCEPT !.snap =
                           CHOOSE a \in attendees : a.id = attendeeId])
      /\ UNCHANGED <<now, tick, performances, schedules, reservations,
                     attendees, mailbox, everConfirmed>>

\* getPerformance of the attendee's performance and the uuid check
CkGetPerformance(p) ==
  /\ At(p, "updateCheckinAdmin", "getPerformance")
  /\ IF procs[p].snap.performanceId \notin DOMAIN performances
       THEN Return(p, "404")
     ELSE IF performances[procs[p].snap.performanceId].adminUuid
               # procs[p].req.uuid
       THEN Return(p, "403")
     ELSE Goto(p, "updateAttendeeCheckin", procs[p])
  /\ UNCHANGED <<now, tick, performances, schedules, reservations, attendees,
                 mailbox, everConfirmed, started>>

\* updateAttendeeCheckin and the answer
CkUpdateAttendeeCheckin(p) ==
  /\ At(p, "updateCheckinAdmin", "updateAttendeeCheckin")
  /\ attendees' = updateAttendeeCheckin(procs[p].req.attendeeId,
                                        procs[p].req.checkedIn)
  /\ Return(p, "200")
  /\ UNCHANGED <<now, tick, performances, schedules, reservations, mailbox,
                 everConfirmed, started>>

\* --------------------------------------------------------------------------
\* updatePerformanceAdmin, src/src/admin/updatePerformanceAdmin.mjs 37-355
\* --------------------------------------------------------------------------
\* the request bodies of an admin: every entry of schedules sets a field
ScheduleUpdates(ids, seats, urls) ==
  {e \in [id : ids, totalSeats : seats, entryUrl : urls] :
     e.totalSeats # Undefined \/ e.entryUrl # Undefined}

AdminRequests(uuids, caps, times, entries) ==
  [performanceId : PerformanceIds, uuid : uuids, maxReservations : caps,
   reservationStartTime : times,
   schedules : {<<>>} \cup {<<e>> : e \in entries}]

\* the first checks: the performance exists, the uuid is the admin's
AdminPrecheck(body) ==
  IF body.performanceId \notin DOMAIN performances THEN "E002"
  ELSE IF performances[body.performanceId].adminUuid # body.uuid THEN "403"
  ELSE "proceed"

\* a body value that is not a number (a string, say), and the typeof test
NotANumber == <<0, "string">>
IsNumber(value) == Len(value) = 1

\* variant: the range check without the comparison with the stored cap
MaxReservationsCheck_RangeOnly(maxReservations, scheduleCount, performanceItem) ==
  IF maxReservations = Undefined THEN "ok"
  ELSE IF \/ ~IsNumber(maxReservations)
          \/ maxReservations[1] < 0
          \/ maxReservations[1] > scheduleCount
    THEN "E101"
  ELSE "ok"

\* validation of maxReservations (lines 82-109)
MaxReservationsCheck(maxReservations, scheduleCount, performanceItem) ==
  IF maxReservations = Undefined THEN "ok"
  ELSE IF \/ ~IsNumber(maxReservations)
          \/ maxReservations[1] < 0
          \/ maxReservations[1] > scheduleCount
    THEN "E101"
  ELSE IF maxReservations[1] < performanceItem.maxReservations THEN "E106"
  ELSE "ok"

\* validation of reservationStartTime (lines 112-125)
StartTimeCheck(reservationStartTime) ==
  IF reservationStartTime # Undefined /\ reservationStartTime[1] = InvalidDate
    THEN "E105" ELSE "ok"

\* variant: the checks on totalSeats without the comparison with the
\* schedule's totalSeats
TotalSeatsCheck_NoDecreaseCheck(totalSeats, existing) ==
  IF totalSeats > THEATER_CAPACITY THEN "E102" ELSE "ok"

\* the checks on totalSeats made before the reserved seats are read
\* (lines 146-175)
TotalSeatsCheck(totalSeats, existing) ==
  IF totalSeats > THEATER_CAPACITY THEN "E102"
  ELSE IF totalSeats < existing.totalSeats THEN "E107"
  ELSE "ok"

\* totalSeats < reserved (line 181)
BelowReserved(totalSeats, reserved) == totalSeats < reserved

\* getReservedSeats(performanceId, id, ["pending", "confirmed"])
getReservedSeats(performanceId, scheduleId) ==
  ReservedSeats(performanceId, scheduleId, {"pending", "confirmed"})

\* hasReminderEmailSent: a reservation of the schedule has the flag set
hasReminderEmailSent(performanceId, scheduleId) ==
  \E r \in ResIds : /\ reservations[r].performanceId = performanceId
                     /\ reservations[r].scheduleId = scheduleId
                     /\ reservations[r].reminderEmailSent = TRUE

\* where the handler suspends first once the validation loop is at entry i:
\* a rejection, a query of the loop, or the first write
RECURSIVE AuValidateFrom(_, _, _)
AuValidateFrom(body, existing, i) ==
  IF i > Len(body.schedules)
    THEN IF body.reservationStartTime # Undefined
              \/ body.maxReservations # Undefined
           THEN [pc |-> "updatePerformance", i |-> 0]
         ELSE IF Len(body.schedules) > 0
           THEN [pc |-> "updateSchedule", i |-> 1]
         ELSE [pc |-> "200", i |-> 0]
  ELSE LET e == body.schedules[i] IN
    IF e.id \notin DOMAIN existing THEN [pc |-> "E003", i |-> i]
    ELSE IF e.totalSeats # Undefined
      THEN IF TotalSeatsCheck(e.totalSeats[1], existing[e.id]) # "ok"
             THEN [pc |-> TotalSeatsCheck(e.totalSeats[1], existing[e.id]),
                   i |-> i]
             ELSE [pc |-> "getReservedSeats", i |-> i]
    ELSE IF e.entryUrl # Undefined
      THEN [pc |-> "hasReminderEmailSent", i |-> i]
    ELSE AuValidateFrom(body, existing, i + 1)

AdminResponses == {"200", "E003", "E101", "E102", "E103", "E104", "E105",
                   "E106", "E107"}

\* the handler goes on to the point AuValidateFrom names
AuProceed(p, loc, to) ==
  IF to.pc \in AdminResponses
    THEN Return(p, to.pc)
    ELSE Goto(p, to.pc, [loc EXCEPT !.total = to.i])

\* the request arrives: getPerformance and the uuid check
AuInvoke(p, U) ==
  \E body \in U.adminRequests :
    /\ Invoke(p, U)
    /\ LET loc == [Begun(p, "updatePerformanceAdmin") EXCEPT !.req = body]
           decision == AdminPrecheck(body)
       IN IF decision # "proceed"
            THEN Answer(p, loc, decision)
            ELSE Goto(p, "getSchedules",
                      [loc EXCEPT !.snap =
                         [performanceItem |-> performances[body.performanceId]]])
    /\ UNCHANGED <<now, tick, performances, schedules, reservations,
                   attendees, mailbox, everConfirmed>>

\* the item of the performance after the update of lines 212-239
PerformanceUpdate(item, body) ==
  [item EXCEPT
     !.reservationStartTime = IF body.reservationStartTime # Undefined
                                THEN body.reservationStartTime[1] ELSE @,
     !.maxReservations = IF body.maxReservations # Undefined
                           THEN body.maxReservations[1] ELSE @]

\* the item of a schedule after the update of lines 244-270
ScheduleUpdate(item, e) ==
  [item EXCEPT
     !.totalSeats = IF e.totalSeats # Undefined THEN e.totalSeats[1] ELSE @,
     !.entryUrl = IF e.entryUrl # Undefined THEN e.entryUrl[1] ELSE @]

\* variant: the performance item is written before the entries of schedules
\* are validated
AuGetSchedules_PerformanceFirst(p) ==
  /\ At(p, "updatePerformanceAdmin", "getSchedules")
  /\ LET body == procs[p].req
         existing == schedules
         capCheck == MaxReservationsCheck(body.maxReservations,
                       Cardinality(DOMAIN existing),
                       procs[p].snap.performanceItem)
         timeCheck == StartTimeCheck(body.reservationStartTime)
         to == AuValidateFrom(body, existing, 1)
     IN IF capCheck # "ok" THEN Return(p, capCheck) /\ performances' = performances
        ELSE IF timeCheck # "ok"
          THEN Return(p, timeCheck) /\ performances' = performances
        ELSE /\ performances' = [performances EXCEPT ![body.performanceId] =
                                   PerformanceUpdate(@, body)]
             /\ AuProceed(p, [procs[p] EXCEPT !.snap = [existing |-> existing]],
                          IF to.pc = "updatePerformance"
                            THEN IF Len(body.schedules) > 0
                                   THEN [pc |-> "updateSchedule", i |-> 1]
                                   ELSE [pc |-> "200", i |-> 0]
                            ELSE to)
  /\ UNCHANGED <<now, tick, schedules, reservations, attendees, mailbox,
                 everConfirmed, started>>

\* getSchedules, then the validation up to the first query of the loop
AuGetSchedules(p) ==
  /\ At(p, "updatePerformanceAdmin", "getSchedules")
  /\ LET body == procs[p].req
         existing == schedules
         capCheck == MaxReservationsCheck(body.maxReservations,
                       Cardinality(DOMAIN existing),
                       procs[p].snap.performanceItem)
         timeCheck == StartTimeCheck(body.reservationStartTime)
     IN IF capCheck # "ok" THEN Return(p, capCheck)
        ELSE IF timeCheck # "ok" THEN Return(p, timeCheck)
        ELSE AuProceed(p, [procs[p] EXCEPT !.snap = [existing |-> existing]],
                       AuValidateFrom(body, existing, 1))
  /\ UNCHANGED <<now, tick, performances, schedules, reservations, attendees,
                 mailbox, everConfirmed, started>>

\* getReservedSeats for entry i, and the comparison with its totalSeats
AuGetReservedSeats(p) ==
  /\ At(p, "updatePerformanceAdmin", "getReservedSeats")
  /\ LET body == procs[p].req
         i == procs[p].total
         e == body.schedules[i]
     IN IF BelowReserved(e.totalSeats[1], getReservedSeats(body.performanceId, e.id))
          THEN Return(p, "E103")
        ELSE IF e.entryUrl # Undefined
          THEN Goto(p, "hasReminderEmailSent", procs[p])
        ELSE AuProceed(p, procs[p],
                       AuValidateFrom(body, procs[p].snap.existing, i + 1))
  /\ UNCHANGED <<now, tick, performances, schedules, reservations, attendees,
                 mailbox, everConfirmed, started>>

\* hasReminderEmailSent for entry i
AuHasReminderEmailSent(p) ==
  /\ At(p, "updatePerformanceAdmin", "hasReminderEmailSent")
  /\ LET body == procs[p].req
         i == procs[p].total
     IN IF hasReminderEmailSent(body.performanceId, body.schedules[i].id)
          THEN Return(p, "E104")
          ELSE AuProceed(p, procs[p],
                         AuValidateFrom(body, procs[p].snap.existing, i + 1))
  /\ UNCHANGED <<now, tick, performances, schedules, reservations, attendees,
                 mailbox, everConfirmed, started>>

\* the update of the performance item
AuUpdatePerformance(p) ==
  /\ At(p, "updatePerformanceAdmin", "updatePerformance")
  /\ LET body == procs[p].req IN
       /\ performances' = [performances EXCEPT ![body.performanceId] =
                             PerformanceUpdate(@, body)]
       /\ IF Len(body.schedules) > 0
            THEN Goto(p, "updateSchedule", [procs[p] EXCEPT !.total = 1])
            ELSE Return(p, "200")
  /\ UNCHANGED <<now, tick, schedules, reservations, attendees, mailbox,
                 everConfirmed, started>>

\* the update of the schedule item of entry i
AuUpdateSchedule(p) ==
  /\ At(p, "updatePerformanceAdmin", "updateSchedule")
  /\ LET body == procs[p].req
         i == procs[p].total
         e == body.schedules[i]
     IN /\ schedules' = [schedules EXCEPT ![e.id] = ScheduleUpdate(@, e)]
        /\ IF i < Len(body.schedules)
             THEN Goto(p, "updateSchedule", [procs[p] EXCEPT !.total = i + 1])
             ELSE Return(p, "200")
  /\ UNCHANGED <<now, tick, performances, reservations, attendees, mailbox,
                 everConfirmed, started>>

\* --------------------------------------------------------------------------
\* failures of the store and of the collaborators
\* --------------------------------------------------------------------------
\* the response of each handler's catch block
CaughtResponse(kind, pc) ==
  CASE kind = "createReservation" -> "E999"
    [] kind = "confirmReservation" ->
         IF pc = "transactWrite" THEN "no-seats" ELSE "error"
    [] kind = "cancelReservation" -> "E999"
    [] kind = "updatePerformanceAdmin" -> "E999"
    [] OTHER -> "500"

\* the invocation ends in its catch block
Throw(p, outcome) ==
  /\ procs' = [procs EXCEPT ![p] = Idle]
  /\ response' = [Reply(procs[p], outcome) EXCEPT !.failed = TRUE]

\* the reminder job catches the rejection of a mail or of a flag update
\* (lines 88-94): that reservation is settled, the job goes on
RmFail(p) ==
  /\ At(p, "sendReminderEmails", "sendReminders")
  /\ \E r \in procs[p].req.todo \cup procs[p].req.sent :
       LET loc == [procs[p] EXCEPT !.req.todo = @ \ {r}, !.req.sent = @ \ {r}]
       IN IF RmSettled(loc)
            THEN IF loc.list = {RmCurrent(p)}
                   THEN /\ procs' = [procs EXCEPT ![p] = Idle]
                        /\ response' = [Reply([loc EXCEPT !.req = <<>>], "200")
                                          EXCEPT !.failed = TRUE]
                   ELSE /\ procs' = [procs EXCEPT ![p] =
                                       [loc EXCEPT !.pc = "getReservationsForSchedule",
                                                   !.list = @ \ {RmCurrent(p)},
                                                   !.req = <<>>]]
                        /\ response' = [NoResponse EXCEPT !.failed = TRUE]
            ELSE /\ procs' = [procs EXCEPT ![p] = loc]
                 /\ response' = [NoResponse EXCEPT !.failed = TRUE]

\* the survey job catches the rejection of the attendee query, of a mail or
\* of a flag update (part_002 367-373): that reservation is settled, the
\* job goes on
SvFail(p) ==
  /\ At(p, "sendSurveyEmails", "sendSurveys")
  /\ \E r \in procs[p].req.todo \cup procs[p].req.checked \cup procs[p].req.sent :
       LET loc == [procs[p] EXCEPT !.req.todo = @ \ {r},
                                   !.req.checked = @ \ {r},
                                   !.req.sent = @ \ {r}]
           settled == loc.req.todo \cup loc.req.checked \cup loc.req.sent = {}
       IN /\ procs' = [procs EXCEPT ![p] =
                         IF ~settled THEN loc
                         ELSE IF loc.list = {RmCurrent(p)} THEN Idle
                         ELSE [loc EXCEPT
                                 !.pc = "getConfirmedReservationsForSchedule",
                                 !.list = @ \ {RmCurrent(p)}, !.req = <<>>]]
          /\ response' = IF settled /\ loc.list = {RmCurrent(p)}
                           THEN [Reply([loc EXCEPT !.req = <<>>], "200")
                                   EXCEPT !.failed = TRUE]
                           ELSE [NoResponse EXCEPT !.failed = TRUE]

\* the call an invocation awaits rejects: nothing is written by that call
\* (the reaper's updates are settled one by one: a rejected one makes the
\* sweep answer 500 once the others are settled)
Fail(p) ==
  /\ ~Free(p)
  /\ IF At(p, "sendReminderEmails", "sendReminders") THEN RmFail(p)
     ELSE IF At(p, "sendSurveyEmails", "sendSurveys") THEN SvFail(p)
     ELSE IF At(p, "checkExpiredReservations", "updateReservationToExpired")
       THEN \E r \in procs[p].list :
              IF procs[p].list = {r}
                THEN Throw(p, "500")
                ELSE /\ procs' = [procs EXCEPT ![p] =
                                    [@ EXCEPT !.list = @ \ {r}, !.out = "500"]]
                     /\ response' = [NoResponse EXCEPT !.failed = TRUE]
       ELSE Throw(p, CaughtResponse(procs[p].kind, procs[p].pc))
  /\ UNCHANGED <<now, tick, performances, schedules, reservations, attendees,
                 mailbox, everConfirmed, started>>

\* the steps of each handler
AdmSteps(p, U) ==
  \/ AdmInvoke(p, U) \/ AdmCheckExisting(p)
  \/ AdmGetAvailableSeats(p) \/ AdmCreateReservation(p)
  \/ AdmSendConfirmationEmail(p)
CfSteps(p, U) ==
  \/ CfInvoke(p, U) \/ CfGetReservation(p) \/ CfGetSchedule(p)
  \/ CfQueryReserved(p) \/ CfTransactWrite(p) \/ CfHasAnyAttendees(p)
  \/ CfPutAttendeesBatch(p) \/ CfSendConfirmationEmail(p)
CnSteps(p, U) ==
  \/ CnInvoke(p, U) \/ CnUpdateReservationStatus(p)
  \/ CnQueryAttendees(p) \/ CnBatchDeleteAttendees(p)
RpSteps(p, U) ==
  \/ RpInvoke(p, U) \/ RpUpdateReservationToExpired(p)
BtSteps(p, U) ==
  \/ BtInvoke(p, U) \/ BtHasAnyAttendees(p) \/ BtCreateAttendeesTransact(p)

RmSteps(p, U) ==
  \/ RmInvoke(p, U) \/ RmGetPerformances(p) \/ RmGetReservationsForSchedule(p)
  \/ RmSendReminderEmail(p) \/ RmUpdateReservationReminderSent(p)

SvSteps(p, U) ==
  \/ SvInvoke(p, U) \/ SvGetPerformances(p)
  \/ SvGetConfirmedReservationsForSchedule(p)
  \/ SvIsRepresentativeCheckedIn(p) \/ SvSendSurveyEmail(p)
  \/ SvUpdateReservationSurveySent(p)

CkSteps(p, U) ==
  \/ CkInvoke(p, U) \/ CkGetPerformance(p) \/ CkUpdateAttendeeCheckin(p)

AuSteps(p, U) ==
  \/ AuInvoke(p, U) \/ AuGetSchedules(p) \/ AuGetReservedSeats(p)
  \/ AuHasReminderEmailSent(p) \/ AuUpdatePerformance(p)
  \/ AuUpdateSchedule(p)

Step(p, U) ==
  \/ AdmSteps(p, U) \/ CfSteps(p, U) \/ CnSteps(p, U) \/ RpSteps(p, U)
  \/ BtSteps(p, U) \/ AuSteps(p, U) \/ Fail(p)

\* the requester of the i-th held reservation
Holders == <<"holder@example.com">>
Requester(i) == Holders[i]

\* States in which admissions at time 0 have left the reservations of
\* Holders pending on schedule S1, their confirmation links delivered, and
\* 59 minutes have passed.
InitHeld ==
  /\ tick = 1
  /\ now = InstantAt(1)
  /\ performances = [p \in PerformanceIds |->
                       [id |-> p, reservationStartTime |-> 0,
                        maxReservations |-> 0, adminUuid |-> AdminUuid]]
  /\ schedules = [s \in ScheduleIds |->
                    [id |-> s, performanceId |-> "P1",
                     totalSeats |-> InitTotalSeats, entryUrl |-> EntryUrl]]
  /\ LET n == Len(Holders) IN
       \E seats \in [1..n -> 1..MaxSeats] :
         /\ reservations =
              [i \in 1..n |->
                 NewReservation([performanceId |-> "P1", scheduleId |-> "S1",
                                 name |-> "Taro", email |-> Requester(i),
                                 reservedSeats |-> seats[i], notes |-> "memo"], 0)]
         /\ mailbox = {[kind |-> "confirm", id |-> i,
                        token |-> ConfirmToken(i, Requester(i))] : i \in 1..n}
  /\ attendees = {}
  /\ procs = [p \in Procs |-> Idle]
  /\ response = NoResponse
  /\ everConfirmed = {}
  /\ started = 0

\* confirmations, cancellations, reaper sweeps and batch materializations
\* run in parallel on the held reservations
LifecycleUniverse ==
  [cap |-> MaxInvocations, table |-> MaxReservations, requests |-> {},
   adminRequests |-> {}, upcoming |-> {}]
NextLifecycle ==
  \/ Tick
  \/ \E p \in Procs :
       \/ CfSteps(p, LifecycleUniverse) \/ CnSteps(p, LifecycleUniverse)
       \/ RpSteps(p, LifecycleUniverse) \/ BtSteps(p, LifecycleUniverse)
       \/ Fail(p)

SpecLifecycle == InitHeld /\ [][NextLifecycle]_vars

\* invocations run one at a time
SerialUniverse ==
  [cap |-> Unbounded, table |-> MaxReservations, upcoming |-> {},
   requests |-> AdmissionRequests({"a@example.com"}, {"S1"}),
   adminRequests |->
     AdminRequests({AdminUuid, "guess"}, {Undefined}, {Undefined},
                   ScheduleUpdates({"S1"}, {Some(1), Some(MaxTotalSeats)},
                                   {Undefined}))
     \cup AdminRequests({AdminUuid}, {Some(0)}, {Undefined}, {})
     \cup AdminRequests({AdminUuid}, {Undefined}, {Undefined},
                        ScheduleUpdates({"S1"}, {Undefined}, {Some(EntryUrl)}))]
SerialProc == "i1"
NextSerial == Tick \/ Step(SerialProc, SerialUniverse)

SpecSerial == Init /\ [][NextSerial]_vars

\* two admissions for schedule S1 race on an empty table; the schedule has
\* any totalSeats an admin may have set
RacingAdmissions == Cardinality(Procs)
InitAdmission ==
  /\ now = 0
  /\ tick = 0
  /\ performances = [p \in PerformanceIds |->
                       [id |-> p, reservationStartTime |-> 0,
                        maxReservations |-> 0, adminUuid |-> AdminUuid]]
  /\ \E seats \in 1..MaxTotalSeats :
       schedules = [s \in ScheduleIds |->
                      [id |-> s, performanceId |-> "P1",
                       totalSeats |-> seats, entryUrl |-> EntryUrl]]
  /\ reservations = <<>>
  /\ attendees = {}
  /\ mailbox = {}
  /\ procs = [p \in Procs |-> Idle]
  /\ response = NoResponse
  /\ everConfirmed = {}
  /\ started = 0

AdmissionUniverse ==
  [cap |-> RacingAdmissions, table |-> MaxReservations,
   requests |-> AdmissionRequests(Emails, {"S1"}),
   adminRequests |-> {}, upcoming |-> {}]
NextAdmission == \E p \in Procs : AdmSteps(p, AdmissionUniverse) \/ Fail(p)

SpecAdmission == InitAdmission /\ [][NextAdmission]_vars

\* The reservation desk: admissions run one at a time after an earlier
\* reservation of a@example.com for schedule S1, made at time 0, went
\* through its life.  DeskSeed gives the tables that life leaves behind:
\* the admission alone (pending), then the confirmation (confirmed, its
\* attendee items written, the cancel link mailed), then the cancellation
\* (canceled, the attendee items deleted); or a reaper sweep 61 minutes
\* after the admission (expired).
DeskStatuses == {"pending", "confirmed", "canceled", "expired"}
DeskFirst(seats) ==
  NewReservation([performanceId |-> "P1", scheduleId |-> "S1",
                  name |-> "Taro", email |-> "a@example.com",
                  reservedSeats |-> seats, notes |-> "memo"], 0)
DeskSnap(seats) ==
  [id |-> 1, performanceId |-> "P1", scheduleId |-> "S1", name |-> "Taro",
   email |-> "a@example.com", reservedSeats |-> seats, notes |-> "memo"]
DeskSeed(status, seats) ==
  [tick |-> IF status = "expired" THEN 2 ELSE 0,
   reservations |->
     <<CASE status = "pending" -> DeskFirst(seats)
         [] status = "confirmed" -> ConfirmUpdate(DeskFirst(seats), 0)
         [] status = "canceled" ->
              updateReservationStatus(ConfirmUpdate(DeskFirst(seats), 0),
                                      "canceled", 0)
         [] status = "expired" ->
              updateReservationToExpired(DeskFirst(seats), InstantAt(2))>>,
   attendees |->
     IF status = "confirmed"
       THEN Range(buildAttendeeRecords(DeskSnap(seats), <<SerialProc, 1, 0>>))
       ELSE {},
   mailbox |->
     {[kind |-> "confirm", id |-> 1,
       token |-> ConfirmToken(1, "a@example.com")]}
     \cup (IF status \in {"confirmed", "canceled"}
             THEN {[kind |-> "cancel", id |-> 1, token |-> CancelToken(1)]}
             ELSE {}),
   everConfirmed |-> IF status \in {"confirmed", "canceled"} THEN {1} ELSE {}]

\* the tables are as one of the seeds left them
SeededAs(seed) ==
  /\ tick = seed.tick
  /\ now = InstantAt(seed.tick)
  /\ reservations = seed.reservations
  /\ attendees = seed.attendees
  /\ mailbox = seed.mailbox
  /\ everConfirmed = seed.everConfirmed

\* The desk starts on an empty table or on one of the seeds.  The admin
\* may have set the schedules' totalSeats to InitTotalSeats or one less
\* (the seed's seats fit), and may have put off the opening of the
\* reservations to the clock's next instant.
InitDesk ==
  /\ \E total \in {InitTotalSeats - 1, InitTotalSeats} :
       /\ schedules = [s \in ScheduleIds |->
                         [id |-> s, performanceId |-> "P1",
                          totalSeats |-> total, entryUrl |-> EntryUrl]]
       /\ \/ /\ now = 0 /\ tick = 0
             /\ reservations = <<>> /\ attendees = {} /\ mailbox = {}
             /\ everConfirmed = {}
          \/ \E status \in DeskStatuses : \E seats \in 1..total :
               SeededAs(DeskSeed(status, seats))
  /\ \E opens \in {0, InstantAt(1)} :
       performances = [p \in PerformanceIds |->
                         [id |-> p, reservationStartTime |-> opens,
                          maxReservations |-> 0, adminUuid |-> AdminUuid]]
  /\ procs = [p \in Procs |-> Idle]
  /\ response = NoResponse
  /\ started = 0

\* one requester asks for any schedule, a second one for schedule S1 (the
\* second one also with no seats or for an unknown performance); the table
\* holds one reservation more than the cap of a performance
DeskUniverse ==
  [cap |-> Unbounded, table |-> MaxPerformanceReservations + 1,
   upcoming |-> {},
   requests |->
     {req \in AdmissionRequests({"a@example.com"}, ScheduleIds)
                \cup AdmissionRequests({"b@example.com"}, {"S1"}) :
        (InvalidRequest(req) \/ req.performanceId = UnknownPerformanceId)
        => req.email = "b@example.com"}
     \cup MissingFieldRequests(
            [performanceId |-> "P1", scheduleId |-> "S1", name |-> "Taro",
             email |-> "b@example.com", reservedSeats |-> 1,
             notes |-> "memo"]),
   adminRequests |-> {}]
\* time passes up to the instant at which the reservations open at the
\* latest (admissions look at the clock for the open-time check only)
DeskTick == now < InstantAt(1) /\ Tick
NextDesk ==
  \/ DeskTick \/ AdmSteps(SerialProc, DeskUniverse) \/ Fail(SerialProc)

SpecDesk == InitDesk /\ [][NextDesk]_vars

\* The office: admin updates, the reminder job and admissions run in
\* parallel, a reservation of a@example.com for schedule S1 being confirmed.
OtherEntryUrl == "https://entry2"
InitOffice ==
  /\ \E seats \in 1..MaxSeats : SeededAs(DeskSeed("confirmed", seats))
  /\ performances = [p \in PerformanceIds |->
                       [id |-> p, reservationStartTime |-> 0,
                        maxReservations |-> 0, adminUuid |-> AdminUuid]]
  /\ schedules = [s \in ScheduleIds |->
                    [id |-> s, performanceId |-> "P1",
                     totalSeats |-> InitTotalSeats, entryUrl |-> EntryUrl]]
  /\ procs = [p \in Procs |-> Idle]
  /\ response = NoResponse
  /\ started = 0

\* the admin raises or lowers the cap of the performance or the totalSeats
\* of schedule S1, or changes its entryUrl; the reminder job finds S1
\* upcoming; a second requester asks for S1
OfficeUniverse ==
  [cap |-> MaxInvocations, table |-> MaxReservations, upcoming |-> {"S1"},
   requests |-> AdmissionRequests({"b@example.com"}, {"S1"}),
   adminRequests |->
     AdminRequests({AdminUuid}, {Some(1), Some(2)}, {Undefined}, {})
     \cup AdminRequests({AdminUuid}, {Undefined}, {Undefined},
            ScheduleUpdates({"S1"},
                            {Some(n) : n \in 1..MaxTotalSeats}, {Undefined}))
     \cup AdminRequests({AdminUuid}, {Undefined}, {Undefined},
            ScheduleUpdates({"S1"}, {Undefined, Some(MaxTotalSeats)},
                            {Some(OtherEntryUrl)}))]
NextOffice ==
  \E p \in Procs :
    \/ AuSteps(p, OfficeUniverse) \/ RmSteps(p, OfficeUniverse)
    \/ AdmSteps(p, OfficeUniverse) \/ Fail(p)

SpecOffice == InitOffice /\ [][NextOffice]_vars

\* the requesters of two admissions that raced for schedule S1
RacedHolders == <<"a@example.com", "b@example.com">>

\* States in which two admissions that raced at time 0 (each read the seats
\* before the other put its reservation) have left two pending reservations
\* on schedule S1, each of at most totalSeats seats, their confirmation
\* links delivered.
InitRaced ==
  /\ tick = 0
  /\ now = 0
  /\ performances = [p \in PerformanceIds |->
                       [id |-> p, reservationStartTime |-> 0,
                        maxReservations |-> 0, adminUuid |-> AdminUuid]]
  /\ schedules = [s \in ScheduleIds |->
                    [id |-> s, performanceId |-> "P1",
                     totalSeats |-> InitTotalSeats, entryUrl |-> EntryUrl]]
  /\ LET n == Len(RacedHolders) IN
       \E seats \in [1..n -> 1..InitTotalSeats] :
         /\ reservations =
              [i \in 1..n |->
                 NewReservation([performanceId |-> "P1", scheduleId |-> "S1",
                                 name |-> "Taro", email |-> RacedHolders[i],
                                 reservedSeats |-> seats[i], notes |-> "memo"], 0)]
         /\ mailbox = {[kind |-> "confirm", id |-> i,
                        token |-> ConfirmToken(i, RacedHolders[i])] : i \in 1..n}
  /\ attendees = {}
  /\ procs = [p \in Procs |-> Idle]
  /\ response = NoResponse
  /\ everConfirmed = {}
  /\ started = 0

\* the two requesters open their confirmation links, in parallel or one
\* after the other
NextRecheck ==
  \E p \in Procs : CfSteps(p, LifecycleUniverse) \/ Fail(p)

SpecRecheck == InitRaced /\ [][NextRecheck]_vars

\* a schedule id no schedule of the performance has
UnknownScheduleId == "SX"

\* the bodies an admin sends one at a time: updates of the cap, the opening
\* time, the totalSeats and the entryUrl of S1; bodies with one bad value
\* (cap out of range, below the stored cap or not a number, an invalid date,
\* an unknown schedule, a totalSeats over the capacity or below the stored
\* one) next to valid ones; bodies of a wrong uuid or an unknown performance
BackOfficeRequests ==
  LET valid == [id |-> "S1", totalSeats |-> Some(MaxTotalSeats),
                entryUrl |-> Undefined]
      url == [id |-> "S2", totalSeats |-> Undefined,
              entryUrl |-> Some(OtherEntryUrl)]
      bad == {[id |-> UnknownScheduleId, totalSeats |-> Some(MaxTotalSeats),
               entryUrl |-> Undefined],
              [id |-> "S2", totalSeats |-> Some(THEATER_CAPACITY + 1),
               entryUrl |-> Undefined],
              [id |-> "S2", totalSeats |-> Some(1), entryUrl |-> Undefined],
              [id |-> "S1", totalSeats |-> Undefined,
               entryUrl |-> Some(OtherEntryUrl)]}
      body == [performanceId |-> "P1", uuid |-> AdminUuid,
               maxReservations |-> Some(1),
               reservationStartTime |-> Undefined, schedules |-> <<valid>>]
  IN AdminRequests({AdminUuid}, {Undefined, Some(1), Some(2)},
                   {Undefined, Some(InstantAt(1))}, {valid})
     \cup {[body EXCEPT !.maxReservations = cap] :
             cap \in {Some(0 - 1), Some(0), NotANumber,
                      Some(Cardinality(ScheduleIds) + 1)}}
     \cup {[body EXCEPT !.reservationStartTime = Some(InvalidDate)]}
     \cup {[body EXCEPT !.schedules = entries] :
             entries \in {<<e>> : e \in bad} \cup {<<valid, e>> : e \in bad}
                           \cup {<<url>>, <<valid, url>>}}
     \cup {[body EXCEPT !.uuid = "guess"],
           [body EXCEPT !.performanceId = UnknownPerformanceId]}

\* admin updates one at a time, the reminder job between them; at most
\* MaxInvocations invocations
NextBackOffice ==
  LET U == [cap |-> MaxInvocations, table |-> MaxReservations,
            upcoming |-> {"S1"}, requests |-> {},
            adminRequests |-> BackOfficeRequests]
  IN AuSteps(SerialProc, U) \/ RmSteps(SerialProc, U) \/ Fail(SerialProc)

SpecBackOffice == InitOffice /\ [][NextBackOffice]_vars

\* confirmations, cancellations, reaper sweeps and batch materializations
\* of the held reservations, one invocation at a time
NextTurns ==
  \/ Tick
  \/ CfSteps(SerialProc, LifecycleUniverse)
  \/ CnSteps(SerialProc, LifecycleUniverse)
  \/ RpSteps(SerialProc, LifecycleUniverse)
  \/ BtSteps(SerialProc, LifecycleUniverse)
  \/ Fail(SerialProc)

SpecTurns == InitHeld /\ [][NextTurns]_vars

\* States in which an admission at time 0 has left a reservation of
\* a@example.com on schedule S1 pending, or its confirmation has left it
\* confirmed with its attendees.
InitHouse ==
  /\ \E status \in {"pending", "confirmed"} : \E seats \in 1..MaxSeats :
       SeededAs(DeskSeed(status, seats))
  /\ performances = [p \in PerformanceIds |->
                       [id |-> p, reservationStartTime |-> 0,
                        maxReservations |-> 0, adminUuid |-> AdminUuid]]
  /\ schedules = [s \in ScheduleIds |->
                    [id |-> s, performanceId |-> "P1",
                     totalSeats |-> InitTotalSeats, entryUrl |-> EntryUrl]]
  /\ procs = [p \in Procs |-> Idle]
  /\ response = NoResponse
  /\ started = 0

\* every handler that writes a table, one invocation at a time and at most
\* MaxInvocations of them: a second requester asks for S1, links are
\* opened, the reaper, the batch job, the reminder job (S1 upcoming) and the
\* survey job (S1 past) fire, the admin checks attendees in and updates the
\* performance; time passes until the seeded reservation is overdue
HouseTick == now <= MinutesPerHour * RESERVATION_EXPIRATION_HOURS /\ Tick
NextHouse ==
  LET U == [cap |-> MaxInvocations, table |-> MaxReservations,
            upcoming |-> {"S1"}, past |-> {"S1"},
            checkinUuids |-> {AdminUuid},
            requests |->
              {req \in AdmissionRequests({"b@example.com"}, {"S1"}) :
                 /\ req.performanceId = "P1" /\ req.reservedSeats = 1
                 /\ req.name = "Taro" /\ req.notes = "memo"},
            adminRequests |->
              AdminRequests({AdminUuid}, {Some(1)}, {Some(InstantAt(1))},
                ScheduleUpdates({"S1"}, {Some(MaxTotalSeats)},
                                {Some(OtherEntryUrl)}))]
  IN \/ HouseTick
     \/ Step(SerialProc, U) \/ RmSteps(SerialProc, U)
     \/ SvSteps(SerialProc, U) \/ CkSteps(SerialProc, U)

SpecHouse == InitHouse /\ [][NextHouse]_vars

\* The floor: confirmations, cancellations, batch materializations and
\* check-ins of the seeded reservation run in parallel, at most
\* MaxInvocations of them, and every call to the store succeeds.
NextFloor ==
  LET U == [cap |-> MaxInvocations, table |-> MaxReservations,
            upcoming |-> {}, past |-> {}, checkinUuids |-> {AdminUuid},
            requests |-> {}, adminRequests |-> {}]
  IN \E p \in Procs :
       CfSteps(p, U) \/ CnSteps(p, U) \/ BtSteps(p, U) \/ CkSteps(p, U)

SpecFloor == InitHouse /\ [][NextFloor]_vars

\* States in which an admission at time 0 has left pending a reservation
\* for a party that fills one BatchWrite, or needs a second one, on a
\* schedule whose totalSeats the admin has raised to the capacity.
InitParty ==
  /\ tick = 0
  /\ now = 0
  /\ performances = [p \in PerformanceIds |->
                       [id |-> p, reservationStartTime |-> 0,
                        maxReservations |-> 0, adminUuid |-> AdminUuid]]
  /\ schedules = [s \in ScheduleIds |->
                    [id |-> s, performanceId |-> "P1",
                     totalSeats |-> THEATER_CAPACITY, entryUrl |-> EntryUrl]]
  /\ \E seats \in {BATCH_SIZE, BATCH_SIZE + 1} :
       reservations =
         <<NewReservation([performanceId |-> "P1", scheduleId |-> "S1",
                           name |-> "Taro", email |-> Requester(1),
                           reservedSeats |-> seats, notes |-> "memo"], 0)>>
  /\ mailbox = {[kind |-> "confirm", id |-> 1,
                 token |-> ConfirmToken(1, Requester(1))]}
  /\ attendees = {}
  /\ procs = [p \in Procs |-> Idle]
  /\ response = NoResponse
  /\ everConfirmed = {}
  /\ started = 0

\* confirmations and batch materializations of the party's reservation, one
\* invocation at a time; any awaited call may be rejected
NextParty ==
  \/ CfSteps(SerialProc, LifecycleUniverse)
  \/ BtSteps(SerialProc, LifecycleUniverse)
  \/ Fail(SerialProc)

SpecParty == InitParty /\ [][NextParty]_vars

\* Late visits: invocations run one at a time on the held reservation and
\* time passes between them only, so that every step of an invocation is
\* taken at the instant at which its request arrived.
NextLate ==
  \/ (\A p \in Procs : Free(p)) /\ Tick
  \/ CfSteps(SerialProc, LifecycleUniverse)
  \/ CnSteps(SerialProc, LifecycleUniverse)
  \/ RpSteps(SerialProc, LifecycleUniverse)

SpecLate == InitHeld /\ [][NextLate]_vars

\* The ledger after some seasons: reservations are never deleted, so the
\* table holds the settled reservations of earlier requesters (confirmed,
\* then canceled) and one reservation made at time 0 that is pending, at
\* any place in the order of the scan; the table fills the page of a scan
\* or exceeds it by one item.
InitLedger ==
  /\ tick = 0
  /\ now = 0
  /\ performances = [p \in PerformanceIds |->
                       [id |-> p, reservationStartTime |-> 0,
                        maxReservations |-> 0, adminUuid |-> AdminUuid]]
  /\ schedules = [s \in ScheduleIds |->
                    [id |-> s, performanceId |-> "P1",
                     totalSeats |-> InitTotalSeats, entryUrl |-> EntryUrl]]
  /\ \E n \in {ScanPageItems, ScanPageItems + 1} : \E k \in 1..n :
       /\ reservations =
            [i \in 1..n |->
               IF i = k
                 THEN NewReservation(
                        [performanceId |-> "P1", scheduleId |-> "S1",
                         name |-> "Taro", email |-> Requester(1),
                         reservedSeats |-> 1, notes |-> "memo"], 0)
                 ELSE updateReservationStatus(
                        ConfirmUpdate(DeskFirst(1), 0), "canceled", 0)]
       /\ mailbox = {[kind |-> "confirm", id |-> k,
                      token |-> ConfirmToken(k, Requester(1))]}
       /\ everConfirmed = (1..n) \ {k}
  /\ attendees = {}
  /\ procs = [p \in Procs |-> Idle]
  /\ response = NoResponse
  /\ started = 0

\* the requester may open the confirmation link, and the cancel link after
\* it (slot i1); the reaper fires on its schedule (slot i2); no call fails
WatchUniverse ==
  [cap |-> Unbounded, table |-> MaxReservations, requests |-> {},
   adminRequests |-> {}, upcoming |-> {}]
Sweeps == RpSteps("i2", WatchUniverse)
NextWatch ==
  \/ Tick
  \/ CfSteps(SerialProc, WatchUniverse) \/ CnSteps(SerialProc, WatchUniverse)
  \/ Sweeps

\* time passes and the schedule keeps firing the reaper, whose invocations
\* run to their end
SpecWatch ==
  InitLedger /\ [][NextWatch]_vars /\ WF_vars(Tick) /\ WF_vars(Sweeps)

\* --------------------------------------------------------------------------
\* properties
\* --------------------------------------------------------------------------
\* the tables a handler may write
Stored == <<performances, schedules, reservations, attendees>>

\* the step is invocation p's read of reservation id for a confirmation
\* whose link carried token
ConfirmRead(p, id, token) ==
  /\ At(p, "confirmReservation", "getReservation")
  /\ procs[p].rid = id
  /\ \/ /\ procs'[p].kind = "confirmReservation"
        /\ procs'[p].pc # "getReservation"
        /\ procs'[p].token = token
     \/ /\ procs'[p] = Idle
        /\ response'.kind = "confirmReservation"
        /\ response'.pc = "getReservation"
        /\ response'.token = token

\* the step is the arrival in slot p of a cancellation of reservation id
\* whose link carried token
CancelRead(p, id, token) ==
  /\ Free(p)
  /\ \/ /\ procs'[p].kind = "cancelReservation"
        /\ procs'[p].rid = id
        /\ procs'[p].token = token
     \/ /\ procs' = procs
        /\ response'.kind = "cancelReservation"
        /\ response'.pc = "arrival"
        /\ response'.rid = id
        /\ response'.token = token

\* C7: a confirmation with the valid token of a reservation that is already
\* confirmed answers already-confirmed (a success outcome) and writes
\* nothing: the item keeps its status and updatedAt, no attendee is added.
C7_ConfirmIdempotent ==
  [][\A p \in Procs : \A id \in ResIds :
       (/\ ConfirmRead(p, id, ConfirmToken(id, reservations[id].email))
        /\ reservations[id].status = "confirmed")
       => (/\ response'.out = "already-confirmed"
           /\ response'.rid = id
           /\ UNCHANGED <<Stored, mailbox>>)]_vars

C7_Witness ==
  /\ response.kind = "confirmReservation"
  /\ response.out = "already-confirmed"
  /\ response.rid \in ResIds
  /\ response.token = ConfirmToken(response.rid, reservations[response.rid].email)
  /\ reservations[response.rid].status = "confirmed"
  /\ hasAnyAttendees(response.rid)

C10_TokenMismatchRejected ==
  [][\A p \in Procs : \A id \in ResIds : \A token \in PresentableTokens(id) :
       /\ (/\ ConfirmRead(p, id, token)
           /\ token # ConfirmToken(id, reservations[id].email))
          => (/\ response'.out \in {"invalid", "expired"}
              /\ procs'[p] = Idle
              /\ UNCHANGED <<Stored, mailbox>>)
       /\ (/\ CancelRead(p, id, token)
           /\ token # CancelToken(id))
          => (/\ response'.out = "E002"
              /\ procs' = procs
              /\ UNCHANGED <<Stored, mailbox>>)]_vars

C10_Witness ==
  /\ response.kind = "confirmReservation"
  /\ response.out = "invalid"
  /\ response.rid \in ResIds
  /\ response.token # ConfirmToken(response.rid, reservations[response.rid].email)
  /\ reservations[response.rid].status = "pending"

\* the step is the reaper invocation p settling its update of reservation r
ReaperSettles(p, r) ==
  /\ At(p, "checkExpiredReservations", "updateReservationToExpired")
  /\ r \in procs[p].list
  /\ IF procs'[p] = Idle THEN procs[p].list = {r}
                          ELSE procs'[p].list = procs[p].list \ {r}

\* C4: the reaper's write sets expired only on an item whose stored status
\* is pending at the write; when the item is confirmed or canceled by then
\* the write is skipped, the item is left as it is and the skip is no error
\* (the sweep goes on and answers 200 unless another update was rejected).
C4_ReaperConditional ==
  [][\A p \in Procs : \A r \in ResIds :
       (ReaperSettles(p, r) /\ ~response'.failed)
       => /\ reservations[r].status = "pending"
               => reservations'[r].status = "expired"
          /\ reservations[r].status # "pending"
               => /\ reservations' = reservations
                  /\ procs'[p] = Idle
                       => response'.out = IF procs[p].out = "none"
                                            THEN "200" ELSE procs[p].out
                  /\ procs'[p] # Idle => procs'[p].out = procs[p].out]_vars

C4_Witness ==
  /\ response.kind = "checkExpiredReservations"
  /\ response.pc = "updateReservationToExpired"
  /\ ~response.failed
  /\ response.out = "200"
  /\ reservations[response.rid].status = "confirmed"

\* seats of schedule s held by pending and confirmed reservations
HeldSeats(s) ==
  ReservedSeats(schedules[s].performanceId, s, {"pending", "confirmed"})

\* C1: when invocations run one at a time, after every completed write the
\* seats of pending and confirmed reservations of every schedule sum to at
\* most the schedule's totalSeats.
C1_SeatBound == \A s \in ScheduleIds : HeldSeats(s) <= schedules[s].totalSeats

\* C2: a reservation whose status is expired or canceled keeps that status
\* in every later step of a confirmation, a cancellation or a reaper sweep.
C2_TerminalStatuses ==
  [][\A r \in ResIds :
       reservations[r].status \in {"expired", "canceled"}
       => reservations'[r].status = reservations[r].status]_vars

\* the attendee items that reference reservation r
AttendeesOf(r) == {a \in attendees : a.reservationId = r}

\* C9: a confirmation that completes after its status write was applied
\* (it got past the TransactWrite) leaves the reservation confirmed with
\* its attendee items materialized, whatever call failed on the way.
C9_ConfirmAtomic ==
  (/\ response.kind = "confirmReservation"
   /\ response.pc \in {"hasAnyAttendees", "putAttendeesBatch",
                       "sendConfirmationEmail"})
  => /\ reservations[response.rid].status = "confirmed"
     /\ Cardinality(AttendeesOf(response.rid))
          >= reservations[response.rid].reservedSeats

\* the valid token of the confirmation the response answers
AnswersValidConfirmation ==
  /\ response.kind = "confirmReservation"
  /\ ~response.failed
  /\ response.rid \in ResIds
  /\ response.token = ConfirmToken(response.rid, reservations[response.rid].email)

\* C3 as stated: a confirmation (valid token, enough seats) that arrived
\* for a pending reservation while a reaper sweep had selected it leaves the
\* reservation confirmed, whatever the interleaving.
C3_ConfirmAlwaysWins ==
  (AnswersValidConfirmation /\ response.raced /\ response.out # "no-seats")
  => reservations[response.rid].status = "confirmed"

\* C3: such a confirmation is answered expired exactly when the reaper's
\* write was applied before the confirmation read the reservation, and the
\* reservation is then expired; in every other interleaving the reservation
\* is not expired when the confirmation answers (it is confirmed, or
\* canceled by a later cancellation), and no reaper write ever turns a
\* confirmed reservation into an expired one.
C3_ConfirmWinsUnlessReaperWroteFirst ==
  /\ [](  (AnswersValidConfirmation /\ response.raced
           /\ response.out # "no-seats")
        => /\ response.out = "expired"
                <=> reservations[response.rid].status = "expired"
           /\ response.out # "expired"
                => reservations[response.rid].status
                     \in {"confirmed", "canceled"})
  /\ [][\A r \in ResIds : reservations[r].status = "confirmed"
                           => reservations'[r].status # "expired"]_vars

C3_Witness ==
  /\ AnswersValidConfirmation
  /\ response.raced
  /\ response.out = "success"
  /\ reservations[response.rid].status = "confirmed"
  /\ \A p \in Procs : procs[p].kind # "checkExpiredReservations"

\* no invocation is in progress
Quiescent == \A p \in Procs : Free(p)

MaterializationsOf(r) == {a.id[2] : a \in AttendeesOf(r)}

Min(a, b) == IF a <= b THEN a ELSE b

\* C5: when two admissions for one schedule are the only operations, the
\* seats of the two reservations they create exceed totalSeats by at most
\* the smaller of the two seat counts (both are admitted only when both
\* read the availability before either wrote).
C5_OversellBound ==
  Len(reservations) = RacingAdmissions
  => HeldSeats("S1") - schedules["S1"].totalSeats
       <= Min(reservations[1].reservedSeats, reservations[2].reservedSeats)

C5_Witness ==
  /\ Len(reservations) = RacingAdmissions
  /\ Quiescent
  /\ HeldSeats("S1") - schedules["S1"].totalSeats
       = Min(reservations[1].reservedSeats, reservations[2].reservedSeats)

\* the seat index with which an attendee item was built
SeatIndex(a) == a.id[3]

\* the names buildAttendeeRecords gives a companion of name (the confirm
\* handler's and the batch job's builders differ by a leading blank)
CompanionNames(name) == {<<" ", name, " companion">>, <<name, " companion">>}

\* C13: a step that materializes a reservation of N seats that had no
\* attendee item leaves exactly N items referencing it, one per seat index
\* 0..N-1, none checked in; the item of index 0 bears the requester's name
\* and the reservation's notes, the others a companion name and empty notes.
C13_MaterializationShape ==
  [][\A r \in ResIds :
       (AttendeesOf(r) = {} /\ AttendeesOf(r)' # {})
       => LET made == AttendeesOf(r)'
              N == reservations[r].reservedSeats
          IN /\ Cardinality(made) = N
             /\ {SeatIndex(a) : a \in made} = 0..(N - 1)
             /\ \A a \in made :
                  /\ a.checkedIn = FALSE
                  /\ SeatIndex(a) = 0
                       => /\ a.name = <<reservations[r].name>>
                          /\ a.notes = reservations[r].notes
                  /\ SeatIndex(a) > 0
                       => /\ a.name \in CompanionNames(reservations[r].name)
                          /\ a.notes = ""]_vars

\* a reservation of MaxSeats seats with notes has been materialized once
C13_Witness ==
  \E r \in ResIds :
    /\ reservations[r].reservedSeats = MaxSeats
    /\ reservations[r].notes # ""
    /\ Cardinality(AttendeesOf(r)) = MaxSeats
    /\ \E a \in AttendeesOf(r) : SeatIndex(a) > 0

\* the reservations that are pending at time t and were created more than
\* one hour before t
Overdue(t) ==
  {r \in ResIds : /\ reservations[r].status = "pending"
                  /\ t - reservations[r].createdAt > MinutesPerHour}

\* the step is a move of reaper invocation p past one of its updates
ReaperWrites(p) ==
  /\ At(p, "checkExpiredReservations", "updateReservationToExpired")
  /\ procs'[p] # procs[p]

AdmissionPasses(p, pc) ==
  /\ At(p, "createReservation", pc)
  /\ procs'[p] # procs[p]
  /\ ~response'.failed

\* the step ends admission p with outcome out
AdmissionAnswers(p, out) == procs'[p] = Idle /\ response'.out = out

\* C14: an admission that reaches the seat check (valid body, known and
\* open performance, no duplicate) is answered E001 exactly when the seats
\* of the pending and confirmed reservations of the schedule plus the seats
\* asked for exceed totalSeats; otherwise it goes on to put its reservation.
C14_SeatCheckExact ==
  [][\A p \in Procs :
       AdmissionPasses(p, "getAvailableSeats")
       => LET req == procs[p].req
              exceeds == HeldSeats(req.scheduleId) + req.reservedSeats
                           > schedules[req.scheduleId].totalSeats
          IN /\ exceeds <=> AdmissionAnswers(p, "E001")
             /\ ~exceeds => /\ procs'[p].pc = "createReservation"
                            /\ procs'[p].req = req
             /\ Stored' = Stored]_vars

\* a reservation took all the seats of a schedule and a later admission
\* asking for one seat of it was answered E001
C14_Witness ==
  /\ response.kind = "createReservation"
  /\ response.pc = "getAvailableSeats"
  /\ response.out = "E001"
  /\ ~response.failed
  /\ response.req.reservedSeats = 1
  /\ \E r \in ResIds :
       /\ reservations[r].scheduleId = response.req.scheduleId
       /\ reservations[r].status \in {"pending", "confirmed"}
       /\ reservations[r].reservedSeats
            = schedules[response.req.scheduleId].totalSeats

\* the pending and confirmed reservations of email for the schedules in ids
\* of a performance
LiveReservations(email, performanceId, ids) ==
  {r \in ResIds : /\ reservations[r].email = email
                  /\ reservations[r].performanceId = performanceId
                  /\ reservations[r].scheduleId \in ids
                  /\ reservations[r].status \in {"pending", "confirmed"}}

\* C15: an admission that reaches the duplicate check is answered E004
\* exactly when its e-mail address has a pending or confirmed reservation
\* for the schedule asked for; expired and canceled reservations do not
\* count: when the address has no pending or confirmed reservation for the
\* performance, the admission goes on to the seat check.
C15_DuplicateRejected ==
  [][\A p \in Procs :
       AdmissionPasses(p, "checkExistingReservation")
       => LET req == procs[p].req IN
            /\ LiveReservations(req.email, req.performanceId, {req.scheduleId}) # {}
                 <=> AdmissionAnswers(p, "E004")
            /\ LiveReservations(req.email, req.performanceId, ScheduleIds) = {}
                 => procs'[p].pc = "getAvailableSeats"
            /\ Stored' = Stored]_vars

\* an address whose reservation for a schedule was canceled was admitted to
\* that schedule again, and its next request for it was answered E004
C15_Witness ==
  /\ response.kind = "createReservation"
  /\ response.pc = "checkExistingReservation"
  /\ response.out = "E004"
  /\ \E r, q \in ResIds :
       /\ reservations[r].email = response.req.email
       /\ reservations[q].email = response.req.email
       /\ reservations[r].scheduleId = response.req.scheduleId
       /\ reservations[q].scheduleId = response.req.scheduleId
       /\ reservations[r].status = "canceled"
       /\ reservations[q].status = "pending"

\* C16: an admission that reaches the duplicate check is answered E005
\* exactly when its e-mail address has no pending or confirmed reservation
\* for the schedule asked for and two or more for the performance; so the
\* third of three admissions for different schedules is rejected.
C16_PerformanceCap ==
  [][\A p \in Procs :
       AdmissionPasses(p, "checkExistingReservation")
       => LET req == procs[p].req IN
            /\ (/\ LiveReservations(req.email, req.performanceId,
                                    {req.scheduleId}) = {}
                /\ Cardinality(LiveReservations(req.email, req.performanceId,
                                                ScheduleIds)) >= 2)
                 <=> AdmissionAnswers(p, "E005")
            /\ Stored' = Stored]_vars

\* the address holds reservations for two schedules and its request for a
\* third one was answered E005
C16_Witness ==
  /\ response.kind = "createReservation"
  /\ response.out = "E005"
  /\ \E r, q \in ResIds :
       /\ reservations[r].scheduleId # reservations[q].scheduleId
       /\ \A x \in {r, q} :
            /\ reservations[x].email = response.req.email
            /\ reservations[x].performanceId = response.req.performanceId
            /\ reservations[x].scheduleId # response.req.scheduleId
            /\ reservations[x].status \in {"pending", "confirmed"}

\* the step is the arrival of an admission request (it may be answered at
\* once); ArrivedRequest is its body
AdmissionArrives(p) ==
  /\ Free(p)
  /\ \/ procs'[p].kind = "createReservation"
     \/ procs'[p] = Idle /\ response'.kind = "createReservation"
                         /\ response'.pc = "arrival"
ArrivedRequest(p) == IF procs'[p] = Idle THEN response'.req ELSE procs'[p].req

\* the seats asked for do not fit the schedule
ExceedsSeats(req) ==
  HeldSeats(req.scheduleId) + req.reservedSeats
    > schedules[req.scheduleId].totalSeats

\* C20: the preconditions of an admission are looked at in the order
\* performance exists, open time, duplicate and cap, seats, and the first
\* that fails gives the answer: an unknown performance 404; a performance
\* not yet open 403, duplicate or full or not; a duplicate for the schedule
\* E004, cap reached or full or not; a reached cap E005, full or not; the
\* seat shortage E001 only after these.
C20_PreconditionOrder ==
  [][\A p \in Procs :
       /\ AdmissionArrives(p)
          => LET req == ArrivedRequest(p)
                 known == req.performanceId \in DOMAIN performances
                 early == known /\ now < performances[req.performanceId]
                                                .reservationStartTime
             IN ~InvalidRequest(req)
                => /\ ~known <=> AdmissionAnswers(p, "404")
                   /\ early <=> AdmissionAnswers(p, "403")
                   /\ (known /\ ~early)
                        <=> procs'[p].pc = "checkExistingReservation"
       /\ AdmissionPasses(p, "checkExistingReservation")
          => LET req == procs[p].req
                 same == LiveReservations(req.email, req.performanceId,
                                          {req.scheduleId})
                 all == LiveReservations(req.email, req.performanceId,
                                         ScheduleIds)
             IN /\ same # {} => AdmissionAnswers(p, "E004")
                /\ (same = {} /\ Cardinality(all) >= MaxPerformanceReservations)
                     => AdmissionAnswers(p, "E005")
                /\ (same = {} /\ Cardinality(all) < MaxPerformanceReservations)
                     => procs'[p].pc = "getAvailableSeats"
       /\ (AdmissionPasses(p, "getAvailableSeats") /\ ExceedsSeats(procs[p].req))
          => AdmissionAnswers(p, "E001")]_vars

\* a request that was a duplicate for its schedule, over the cap of the
\* performance and too large for the seats left was answered E004
C20_Witness ==
  /\ response.kind = "createReservation"
  /\ response.out = "E004"
  /\ ExceedsSeats(response.req)
  /\ Cardinality(LiveReservations(response.req.email,
                                  response.req.performanceId, ScheduleIds))
       >= MaxPerformanceReservations

\* the step ends cancellation p with SUCCESS after its writes (the item it
\* read was not canceled yet)
CancelCompletes(p) ==
  /\ procs[p].kind = "cancelReservation"
  /\ procs[p].pc \in {"queryAttendees", "batchDeleteAttendees"}
  /\ procs'[p] = Idle
  /\ response'.out = "SUCCESS"
  /\ ~response'.failed

\* C18: a cancellation that got past its checks (valid token, item pending
\* or confirmed) and ends with SUCCESS while no other invocation is in
\* progress leaves the reservation canceled and no attendee item
\* referencing it.
C18_CancelClears ==
  [][\A p \in Procs :
       (CancelCompletes(p) /\ \A q \in Procs \ {p} : Free(q))
       => /\ reservations'[procs[p].rid].status = "canceled"
          /\ AttendeesOf(procs[p].rid)' = {}]_vars

\* the step is admin update p getting past the call it awaits at pc, the
\* call not being rejected
AdminPasses(p, pc) ==
  /\ At(p, "updatePerformanceAdmin", pc)
  /\ procs'[p] # procs[p]
  /\ ~response'.failed

\* the step ends admin update p with an error code of the validation
AdminRejects(p) ==
  /\ procs[p].kind = "updatePerformanceAdmin"
  /\ procs'[p] = Idle
  /\ ~response'.failed
  /\ response'.out \in AdminResponses \ {"200"}

\* C11: an admin update whose entry for a schedule has a totalSeats below
\* the schedule's stored totalSeats when the schedules are read is rejected
\* there; one whose totalSeats is below the seats of the schedule's pending
\* and confirmed reservations when these are read is rejected with E103;
\* a rejected update has written nothing, so the stored totalSeats stays.
C11_DecreaseRejected ==
  [][\A p \in Procs :
       /\ AdminPasses(p, "getSchedules")
          => \A i \in 1..Len(procs[p].req.schedules) :
               LET e == procs[p].req.schedules[i] IN
                 (e.totalSeats # Undefined
                    /\ e.totalSeats[1] < schedules[e.id].totalSeats)
                 => AdminRejects(p)
       /\ AdminPasses(p, "getReservedSeats")
          => LET e == procs[p].req.schedules[procs[p].total] IN
               e.totalSeats[1] < HeldSeats(e.id)
               => AdminRejects(p) /\ response'.out = "E103"
       /\ AdminRejects(p)
          => /\ procs[p].pc \in {"getSchedules", "getReservedSeats",
                                 "hasReminderEmailSent"}
             /\ Stored' = Stored]_vars

\* an update asking for fewer seats than are reserved was answered E103
\* and the schedule keeps its totalSeats
C11_Witness ==
  /\ response.kind = "updatePerformanceAdmin"
  /\ response.out = "E103"
  /\ ~response.failed
  /\ LET e == response.req.schedules[1] IN
       /\ e.totalSeats[1] < HeldSeats(e.id)
       /\ schedules[e.id].totalSeats > e.totalSeats[1]

\* C12: in every step, under any interleaving of admin updates, no
\* schedule's stored totalSeats and no performance's stored maxReservations
\* decreases.
C12_NeverDecrease ==
  [][/\ \A s \in ScheduleIds :
          schedules'[s].totalSeats >= schedules[s].totalSeats
     /\ \A perf \in PerformanceIds :
          performances'[perf].maxReservations
            >= performances[perf].maxReservations]_vars

\* a reservation of schedule s has its reminder flag set
ReminderSentFor(s) ==
  \E r \in ResIds : /\ reservations[r].scheduleId = s
                     /\ reservations[r].reminderEmailSent

\* C19: under any interleaving of the reminder job and admin updates, no
\* step changes the entryUrl of a schedule one of whose reservations has
\* its reminder flag set.
C19_EntryUrlFrozen ==
  [][\A s \in ScheduleIds :
       ReminderSentFor(s) => schedules'[s].entryUrl = schedules[s].entryUrl]_vars

\* the step is confirmation p getting past the call it awaits at pc, the
\* call not being rejected
ConfirmPasses(p, pc) ==
  /\ At(p, "confirmReservation", pc)
  /\ procs'[p] # procs[p]
  /\ ~response'.failed

\* C21: a confirmation of a pending reservation (its token was valid) that
\* queries the confirmed seats of the schedule while totalSeats minus their
\* sum is below its reservedSeats ends there with no-seats: no table is
\* written, the reservation stays pending and has no attendee; and no-seats
\* is answered by the seat check only there, before any write.
C21_NoSeatsWritesNothing ==
  [][\A p \in Procs :
       /\ ConfirmPasses(p, "queryReserved")
          => LET id == procs[p].rid
                 item == reservations[id]
                 short == schedules[item.scheduleId].totalSeats
                            - ReservedSeats(item.performanceId, item.scheduleId,
                                            {"confirmed"})
                          < item.reservedSeats
             IN (item.status = "pending" /\ short)
                => /\ procs'[p] = Idle
                   /\ response'.out = "no-seats"
                   /\ Stored' = Stored
                   /\ reservations'[id].status = "pending"
                   /\ AttendeesOf(id)' = {}
       /\ (procs[p].kind = "confirmReservation" /\ procs'[p] = Idle
             /\ ~response'.failed /\ response'.out = "no-seats")
          => procs[p].pc = "queryReserved" /\ Stored' = Stored]_vars

\* a pending reservation was refused with no-seats because the confirmed
\* reservations of its schedule left fewer seats than it asks for
C21_Witness ==
  /\ response.kind = "confirmReservation"
  /\ response.out = "no-seats"
  /\ ~response.failed
  /\ response.token = ConfirmToken(response.rid, reservations[response.rid].email)
  /\ reservations[response.rid].status = "pending"
  /\ AttendeesOf(response.rid) = {}
  /\ \E r \in ResIds : reservations[r].status = "confirmed"
  /\ schedules["S1"].totalSeats - ReservedSeats("P1", "S1", {"confirmed"})
       < reservations[response.rid].reservedSeats

\* C27: a confirmation answers no-seats only when its seat check found too
\* few seats; when the write that sets the status to confirmed is rejected
\* the answer is the generic error outcome, not no-seats.
C27_NoSeatsOnlyFromSeatCheck ==
  response.kind = "confirmReservation"
  => /\ response.out = "no-seats"
          => response.pc = "queryReserved" /\ ~response.failed
     /\ (response.failed /\ response.pc = "transactWrite")
          => response.out = "error"

\* C30: in every reachable state the reservedSeats of the confirmed
\* reservations of a schedule sum to at most the schedule's totalSeats.
C30_ConfirmedWithinTotal ==
  \A s \in ScheduleIds :
    ReservedSeats(schedules[s].performanceId, s, {"confirmed"})
      <= schedules[s].totalSeats

\* invocation p has decided, from a read of reservation r, to write r's
\* status and has not written it yet
StatusWriteOutstanding(p, r) ==
  \/ /\ procs[p].kind = "confirmReservation"
     /\ procs[p].pc \in {"getSchedule", "queryReserved", "transactWrite"}
     /\ procs[p].rid = r
  \/ /\ At(p, "cancelReservation", "updateReservationStatus")
     /\ procs[p].rid = r
  \/ /\ At(p, "checkExpiredReservations", "updateReservationToExpired")
     /\ r \in procs[p].list

\* C25: in no reachable state do two different components (confirmation,
\* cancellation, reaper) both have a status write of the same reservation
\* outstanding, each decided from a read taken before the other's write.
C25_SingleStatusWriter ==
  \A r \in ResIds : \A p, q \in Procs :
    (StatusWriteOutstanding(p, r) /\ StatusWriteOutstanding(q, r))
    => procs[p].kind = procs[q].kind

\* the outcomes of a rejected admission: validation error, unknown
\* performance, not yet open, duplicate schedule, cap reached, seat shortage
AdmissionRejections == {"E002", "404", "403", "E004", "E005", "E001"}

\* C22: a step that answers an admission with a rejection (validation
\* error for a missing field or a non-positive seat count, unknown
\* performance, not yet open, duplicate schedule, cap reached, seat
\* shortage) leaves the reservation store as it was, and the rejection
\* comes before the handler's put of the item.
C22_RejectionWritesNothing ==
  [][(/\ response'.kind = "createReservation"
      /\ ~response'.failed
      /\ response'.out \in AdmissionRejections)
     => /\ reservations' = reservations
        /\ Stored' = Stored
        /\ response'.rid = NoRes
        /\ response'.pc \in {"arrival", "checkExistingReservation",
                              "getAvailableSeats"}]_vars

\* a request without its name was answered E002 while the store holds a
\* reservation
C22_Witness ==
  /\ response.kind = "createReservation"
  /\ response.out = "E002"
  /\ ~response.failed
  /\ response.req.name = Missing
  /\ response.req.reservedSeats > 0
  /\ Len(reservations) > 0

\* the value of maxReservations the body of admin update p carries is not
\* acceptable: not a number, outside 0..(number of schedules), or below the
\* performance's stored maxReservations
CapUnacceptable(body) ==
  LET value == body.maxReservations IN
    \/ ~IsNumber(value)
    \/ value[1] < 0
    \/ value[1] > Cardinality({s \in ScheduleIds :
                                 schedules[s].performanceId = body.performanceId})
    \/ value[1] < performances[body.performanceId].maxReservations

\* C23: an admin update that carries maxReservations is rejected (E101 or
\* E106), with the tables unchanged, when the value is not a number, is
\* outside 0..(number of schedules of the performance) or is below the
\* performance's stored maxReservations; a step changes the stored
\* maxReservations only to an acceptable value carried by the update, and
\* an update answered 200 carried no unacceptable value.
C23_CapValidated ==
  [][\A p \in Procs :
       LET body == procs[p].req IN
       /\ (AdminPasses(p, "getSchedules") /\ body.maxReservations # Undefined
             /\ CapUnacceptable(body))
          => /\ AdminRejects(p)
             /\ response'.out \in {"E101", "E106"}
             /\ Stored' = Stored
       /\ (procs[p].kind = "updatePerformanceAdmin"
             /\ procs'[p] # procs[p] /\ ~response'.failed
             /\ \/ performances'[body.performanceId].maxReservations
                     # performances[body.performanceId].maxReservations
                \/ response'.out = "200")
          => \/ body.maxReservations = Undefined
                  /\ performances'[body.performanceId].maxReservations
                       = performances[body.performanceId].maxReservations
             \/ /\ body.maxReservations # Undefined
                /\ ~CapUnacceptable(body)
                /\ performances'[body.performanceId].maxReservations
                     = body.maxReservations[1]]_vars

\* an update carrying a cap below the stored one was rejected with E106 and
\* the stored cap is as it was
C23_Witness ==
  /\ response.kind = "updatePerformanceAdmin"
  /\ response.out = "E106"
  /\ ~response.failed
  /\ IsNumber(response.req.maxReservations)
  /\ response.req.maxReservations[1] >= 0
  /\ response.req.maxReservations[1]
       < performances[response.req.performanceId].maxReservations

\* C28: a step that rejects an admin update (wrong admin uuid, unknown
\* performance, or a validation failure on maxReservations,
\* reservationStartTime or an entry of schedules) writes nothing and comes
\* before the first write of the update, whatever valid values the same
\* body carries.
C28_RejectedUpdateWritesNothing ==
  [][(/\ response'.kind = "updatePerformanceAdmin"
      /\ ~response'.failed
      /\ response'.out # "200")
     => /\ response'.out \in (AdminResponses \ {"200"}) \cup {"403", "E002"}
        /\ Stored' = Stored
        /\ response'.pc \in {"arrival", "getSchedules", "getReservedSeats",
                              "hasReminderEmailSent"}]_vars

\* an update whose first entry was valid and whose second entry asked for
\* fewer seats than stored was rejected with E107, and the first entry's
\* totalSeats was not written
C28_Witness ==
  /\ response.kind = "updatePerformanceAdmin"
  /\ response.out = "E107"
  /\ ~response.failed
  /\ Len(response.req.schedules) = 2
  /\ response.req.maxReservations # Undefined
  /\ LET e == response.req.schedules[1] IN
       /\ e.totalSeats # Undefined
       /\ e.totalSeats[1] > schedules[e.id].totalSeats
  /\ performances[response.req.performanceId].maxReservations
       # response.req.maxReservations[1]

\* C26: across the runs of the reminder job, no reservation is sent a
\* reminder more than once.
C26_ReminderAtMostOnce ==
  \A r \in ResIds : Cardinality(RemindersOf(r)) <= 1

\* the step is materializer p (inline in a confirmation, or the batch job)
\* settling its existence query for reservation r
MaterializerChecks(p, r) ==
  /\ procs'[p] # procs[p]
  /\ ~response'.failed
  /\ \/ At(p, "confirmReservation", "hasAnyAttendees") /\ procs[p].rid = r
     \/ At(p, "createAttendeesBatch", "hasAnyAttendees") /\ BtCurrent(p) = r

\* C29: with invocations one after the other, a materializer (inline or
\* batch) that checks a reservation which has an attendee item builds and
\* writes none for it, and no step adds an attendee item to a reservation
\* that has one: the batch job after an inline confirmation, or a second
\* batch run, leaves the attendee set as the first materialization left it.
C29_MaterializeOnce ==
  [][\A r \in ResIds :
       /\ \A p \in Procs :
            (MaterializerChecks(p, r) /\ AttendeesOf(r) # {})
            => /\ attendees' = attendees
               /\ procs'[p].pc \notin {"putAttendeesBatch",
                                       "createAttendeesTransact"}
       /\ AttendeesOf(r) # {} => AttendeesOf(r)' \subseteq AttendeesOf(r)]_vars

\* a batch run ended on its existence query for a reservation that an
\* inline confirmation had materialized: the reservation has the one
\* materialization of reservedSeats items
C29_Witness ==
  /\ response.kind = "createAttendeesBatch"
  /\ response.pc = "hasAnyAttendees"
  /\ response.out = "200"
  /\ ~response.failed
  /\ \E r \in ResIds :
       /\ reservations[r].status = "confirmed"
       /\ Cardinality(AttendeesOf(r)) = reservations[r].reservedSeats
       /\ \E m \in mailbox : m.kind = "cancel" /\ m.id = r
       /\ \A a \in AttendeesOf(r) : a.id[2][1] = SerialProc /\ a.id[2][3] = 0

\* C24: no step of any handler (confirmation, cancellation, reaper,
\* reminder job, survey job, admin update, batch job, check-in, a later
\* admission) removes a stored reservation or moves it to another id, and
\* none changes a field of it other than status, updatedAt,
\* reminderEmailSent and surveyEmailSent: performanceId, scheduleId, email,
\* name and reservedSeats (and notes, createdAt) stay as created.
C24_ReservationFrame ==
  [][\A r \in ResIds :
       /\ r \in DOMAIN reservations'
       /\ [reservations'[r] EXCEPT
             !.status = reservations[r].status,
             !.updatedAt = reservations[r].updatedAt,
             !.reminderEmailSent = reservations[r].reminderEmailSent,
             !.surveyEmailSent = reservations[r].surveyEmailSent]
            = reservations[r]]_vars

\* the reminder job and the survey job have both flagged the confirmed
\* reservation, which still has the seats it was created with
C24_Witness ==
  \E r \in ResIds :
    /\ reservations[r].status = "confirmed"
    /\ reservations[r].reminderEmailSent
    /\ reservations[r].surveyEmailSent
    /\ reservations[r].reservedSeats = Cardinality(AttendeesOf(r))
    /\ reservations[r].email = "a@example.com"

\* C31: with invocations one at a time, no e-mail address ever holds two
\* pending or confirmed reservations for one schedule, nor more than
\* MaxPerformanceReservations pending or confirmed reservations within one
\* performance.
C31_LiveReservationsBounded ==
  \A email \in {reservations[r].email : r \in ResIds} :
    \A performanceId \in PerformanceIds :
      /\ \A s \in ScheduleIds :
           Cardinality(LiveReservations(email, performanceId, {s})) <= 1
      /\ Cardinality(LiveReservations(email, performanceId, ScheduleIds))
           <= MaxPerformanceReservations

\* C32: whatever the interleaving of the materializers of one reservation
\* (two confirmations opened with the same link, or a confirmation and the
\* batch job), the attendee items that reference the reservation are never
\* more than its reservedSeats.
C32_AttendeesWithinSeats ==
  \A r \in ResIds :
    Cardinality(AttendeesOf(r)) <= reservations[r].reservedSeats

\* C33: however a cancellation interleaves with a confirmation or a batch
\* materialization of the same reservation, once no invocation is in
\* progress a reservation whose status is canceled has no attendee item
\* referencing it.
C33_CanceledHasNoAttendees ==
  Quiescent =>
    \A r \in ResIds :
      reservations[r].status = "canceled" => AttendeesOf(r) = {}

\* C34: the check-in update creates no attendee item: whatever a
\* cancellation does between the check-in handler's read and its write, the
\* attendee ids are the same before and after the update, and every stored
\* attendee item references a reservation.
C34_CheckinCreatesNothing ==
  /\ [][\A p \in Procs :
          (At(p, "updateCheckinAdmin", "updateAttendeeCheckin")
           /\ procs'[p] = Idle)
          => {a.id : a \in attendees'} = {a.id : a \in attendees}]_vars
  /\ [](\A a \in attendees : a.reservationId \in ResIds)

\* C35: an admission that answers anything but success (the internal error
\* E999 included) has written no reservation item (response.rid is the id
\* of the item the invocation put, if it put one): no pending reservation
\* holds seats for a request whose caller was told it failed.
C35_FailedAdmissionWritesNothing ==
  (response.kind = "createReservation" /\ response.out # "200")
  => response.rid \notin ResIds

\* C36: when a materialization was interrupted after it wrote some of the
\* attendee items of a confirmed reservation, a later materializer run
\* completes them: once a batch job or a confirmation has ended without a
\* rejected call, every confirmed reservation that has attendee items has
\* exactly reservedSeats of them.
C36_MaterializationCompleted ==
  (/\ \/ response.kind = "createAttendeesBatch" /\ response.out = "200"
      \/ response.kind = "confirmReservation"
           /\ response.out \in {"success", "already-confirmed"}
   /\ ~response.failed)
  => \A r \in ResIds :
       (reservations[r].status = "confirmed" /\ AttendeesOf(r) # {})
       => Cardinality(AttendeesOf(r)) = reservations[r].reservedSeats

\* C37: when a cancellation wrote status canceled and was interrupted
\* before the attendee items were deleted, a later cancel request with the
\* same valid token deletes what is left: every cancel request answered
\* SUCCESS leaves no attendee item referencing the canceled reservation.
C37_RepeatedCancelClears ==
  (/\ response.kind = "cancelReservation"
   /\ response.out = "SUCCESS"
   /\ ~response.failed
   /\ response.rid \in ResIds
   /\ reservations[response.rid].status = "canceled")
  => AttendeesOf(response.rid) = {}

\* C38: no reservation becomes confirmed once its hold window has elapsed:
\* a request that arrives more than RESERVATION_EXPIRATION_HOURS after
\* createdAt never sets the status to confirmed, whether a sweep has run
\* since or not.
C38_NoLateConfirmation ==
  [][\A r \in ResIds :
       (reservations'[r].status = "confirmed"
        /\ reservations[r].status # "confirmed")
       => now - reservations[r].createdAt
            <= RESERVATION_EXPIRATION_HOURS * MinutesPerHour]_vars

\* C39: when the reaper keeps being fired and no call to the store fails,
\* every reservation that is pending eventually is not pending any more
\* (it is confirmed, canceled or expired), and so stops counting against
\* the seats at admission unless it was confirmed.
C39_PendingEventuallyLeaves ==
  \A r \in 1..(ScanPageItems + 1) :
    (r \in ResIds /\ reservations[r].status = "pending")
      ~> (r \in ResIds => reservations[r].status # "pending")

====
